-------------------------- MODULE TimestampsProofs --------------------------
(***************************************************************************)
(* Timestamps and names correspond: what Format writes, Parse reads, and   *)
(* the directories that are named the way Format writes are found again.   *)
(***************************************************************************)
EXTENDS Timestamps, TLAPS

LEMMA UnitType == Unit \in Nat \ {0} /\ Half \in Nat /\ Half > 0
BY SMT, HalfAssumption DEF Unit

LEMMA HalfHoldsUnit == Half >= Unit
BY HalfAssumption

USE UnitType, HalfHoldsUnit

\* An integer that fits is not changed.
LEMMA WrapFits ==
  ASSUME NEW i \in Int64
  PROVE  Wrap(i) = i
<1>1. i + Half \in 0..(2 * Half - 1)
  BY DEF Int64
<1>2. \A m \in Nat \ {0} : \A a \in 0..(m - 1) : a % m = a
  OBVIOUS
<1>3. (i + Half) % (2 * Half) = i + Half
  BY <1>1, <1>2
<1> QED
  BY <1>3 DEF Wrap, Int64

LEMMA QuoRem ==
  ASSUME NEW ts \in Int
  PROVE  /\ Quo(ts) \in Int
         /\ Rem(ts) \in Int
         /\ ts = Unit * Quo(ts) + Rem(ts)
         /\ ts >= 0 => 0 <= Rem(ts) /\ Rem(ts) < Unit
         /\ ts < 0 => -Unit < Rem(ts) /\ Rem(ts) <= 0
<1>1. \A a \in Nat : /\ a \div 1000000 \in Int
                     /\ 0 <= a - 1000000 * (a \div 1000000)
                     /\ a - 1000000 * (a \div 1000000) < 1000000
  BY SMT
<1>2. CASE ts >= 0
  BY SMT, <1>1, <1>2 DEF Quo, Rem, Unit
<1>3. CASE ts < 0
  <2>1. -ts \in Nat
    BY <1>3
  <2> QED
    BY SMT, <1>1, <1>3, <2>1 DEF Quo, Rem, Unit
<1> QED
  BY <1>2, <1>3

LEMMA WrapType ==
  ASSUME NEW i \in Int
  PROVE  Wrap(i) \in Int64
<1>1. \A m \in Nat \ {0} : \A a \in Int : a % m \in 0..(m - 1)
  OBVIOUS
<1>2. (i + Half) % (2 * Half) \in 0..(2 * Half - 1)
  BY <1>1
<1> QED
  BY <1>2 DEF Wrap, Int64

\* One turn below the least integer comes back from above.
LEMMA WrapBelow ==
  ASSUME NEW i \in Int, -3 * Half <= i, i < -Half
  PROVE  Wrap(i) = i + 2 * Half
<1>1. \A m \in Nat \ {0} : \A a \in Int : -m <= a /\ a < 0 => a % m = a + m
  OBVIOUS
<1>2. (i + Half) % (2 * Half) = i + Half + 2 * Half
  BY <1>1
<1> QED
  BY <1>2 DEF Wrap

\* Format rounds down: its fraction is never negative.
LEMMA FormatRoundsDown ==
  ASSUME NEW ts \in Int
  PROVE  LET n == Format(ts) IN
         /\ n = [secs |-> n.secs, len |-> 6, frac |-> n.frac]
         /\ n.secs \in Int /\ n.frac \in 0..(Unit - 1)
         /\ ts = Unit * n.secs + n.frac
<1> DEFINE q == Quo(ts)
           r == Rem(ts)
<1>1. /\ q \in Int /\ r \in Int /\ ts = Unit * q + r
      /\ -Unit < r /\ r < Unit
  BY SMT, QuoRem DEF Unit
<1>2. CASE r < 0
  <2>1. Format(ts) = [secs |-> q - 1, len |-> 6, frac |-> r + Unit]
    BY <1>2 DEF Format
  <2> HIDE DEF q, r
  <2>2. Unit * q + r = Unit * (q - 1) + (r + Unit)
    BY SMT, <1>1 DEF Unit
  <2> QED
    BY <1>1, <1>2, <2>1, <2>2
<1>3. CASE ~(r < 0)
  <2>1. Format(ts) = [secs |-> q, len |-> 6, frac |-> r]
    BY <1>3 DEF Format
  <2> HIDE DEF q, r
  <2> QED
    BY <1>1, <1>3, <2>1
<1> QED
  BY <1>2, <1>3

\* A number of microseconds has one whole number of seconds.
LEMMA OneSplit ==
  ASSUME NEW s \in Int, NEW f \in Nat, f < Unit,
         NEW u \in Int, NEW g \in Nat, g < Unit,
         Unit * s + f = Unit * u + g
  PROVE  s = u /\ f = g
BY SMT DEF Unit

\* Every name of the archive gives an int64.
LEMMA ParseType ==
  ASSUME NEW n \in Name
  PROVE  Parse(n) \in Int64
<1>1. /\ n.secs * Unit \in Int
      /\ n.frac * Places[n.len + 1] \in Int
  BY SMT DEF Name, Int64, Places, Unit
<1>2. Wrap(n.secs * Unit) + n.frac * Places[n.len + 1] \in Int
  BY <1>1, WrapType DEF Int64
<1> QED
  BY <1>2, WrapType DEF Parse

\* SnapshotDir names the directories of all timestamps.
LEMMA FormatType ==
  ASSUME NEW ts \in Int64
  PROVE  Format(ts) \in Name /\ Canonical(Format(ts))
<1> DEFINE n == Format(ts)
<1>1. /\ n = [secs |-> n.secs, len |-> 6, frac |-> n.frac]
      /\ n.secs \in Int /\ n.frac \in 0..(Unit - 1)
      /\ ts = Unit * n.secs + n.frac
  BY FormatRoundsDown DEF Int64
<1>2. /\ n.frac \in Nat /\ n.frac < Unit
      /\ n.secs \in Int /\ ts = Unit * n.secs + n.frac
  BY <1>1
<1> HIDE DEF n
<1>3. n.secs \in Int64
  BY SMT, <1>2, HalfAssumption DEF Int64, Unit
<1>4. n.frac * Places[6 + 1] = n.frac
  BY SMT, <1>2 DEF Places
<1>5. n \in [secs : Int64, len : 0..6, frac : Nat] /\ n.len = 6
  BY <1>1, <1>2, <1>3
<1> QED
  BY <1>2, <1>4, <1>5 DEF Name, Canonical, n

\* Format and Parse (snapshot.go:26, 41): the name written for a timestamp is
\* read back as the same timestamp, for every int64, although the whole
\* seconds of the least timestamps do not fit into int64 as microseconds.
THEOREM RoundTrip ==
  ASSUME NEW ts \in Int64
  PROVE  Parse(Format(ts)) = ts
<1> DEFINE n == Format(ts)
<1>1. /\ n.secs \in Int /\ n.frac \in 0..(Unit - 1) /\ n.len = 6
      /\ ts = Unit * n.secs + n.frac
  BY FormatRoundsDown DEF Int64
<1>2. n.frac * Places[n.len + 1] = n.frac
  BY SMT, <1>1 DEF Places
<1> DEFINE whole == n.secs * Unit
<1>3. /\ whole \in Int /\ whole = ts - n.frac
      /\ -Half - Unit < whole /\ whole < Half
  BY <1>1 DEF Int64
<1>4. Parse(n) = Wrap(Wrap(whole) + n.frac)
  BY <1>2 DEF Parse
<1> HIDE DEF n, whole
<1>5. CASE -Half <= whole
  <2>1. Wrap(whole) = whole
    BY <1>3, <1>5, WrapFits DEF Int64
  <2> QED
    BY <1>1, <1>3, <1>4, <2>1, WrapFits DEF n
<1>6. CASE whole < -Half
  <2>1. Wrap(whole) = whole + 2 * Half
    BY <1>3, <1>6, WrapBelow
  <2>2. Wrap(whole) + n.frac = ts + 2 * Half
    BY <1>1, <1>3, <2>1 DEF Int64
  <2>3. Wrap(ts + 2 * Half) = ts
    <3>1. \A m \in Nat \ {0} : \A a \in Int : m <= a /\ a < 2 * m => a % m = a - m
      OBVIOUS
    <3> DEFINE turn == 2 * Half
               up   == ts + turn + Half
    <3>2. /\ turn \in Nat \ {0} /\ up \in Int
          /\ turn <= up /\ up < 2 * turn /\ up - turn = ts + Half
      BY DEF Int64
    <3>3. up % turn = up - turn
      <4> HIDE DEF up, turn
      <4> QED
        BY <3>1, <3>2
    <3> QED
      BY <3>2, <3>3 DEF Wrap, Int64
  <2> QED
    BY <1>4, <2>2, <2>3 DEF n
<1> QED
  BY <1>3, <1>5, <1>6

\* SnapshotDir (archive.go:15): two snapshots never share a directory, and
\* the name of their directory is one that Parse accepts.
THEOREM OwnDirectory ==
  ASSUME NEW ts \in Int64, NEW other \in Int64, Format(ts) = Format(other)
  PROVE  ts = other
BY RoundTrip

\* Import and SnapshotDir: a directory with six fractional digits is the
\* directory of the snapshot that import makes of it, so that rerun, delete
\* and the file pages find it.  The names whose seconds would wrap around are
\* the only exception.
THEOREM DirectoryFound ==
  ASSUME NEW n \in Name, Canonical(n),
         n.secs * Unit \in Int64, n.secs * Unit + n.frac \in Int64
  PROVE  Format(Parse(n)) = n
<1>1. /\ n.secs \in Int /\ n.frac \in 0..(Unit - 1) /\ n.len = 6
      /\ n.frac * Places[n.len + 1] = n.frac
      /\ n = [secs |-> n.secs, len |-> 6, frac |-> n.frac]
  BY SMT DEF Name, Canonical, Places, Int64
<1> DEFINE ts == Unit * n.secs + n.frac
<1>2. Parse(n) = ts /\ ts \in Int
  BY <1>1, WrapFits DEF Parse
<1> DEFINE m == Format(ts)
<1>3. /\ m = [secs |-> m.secs, len |-> 6, frac |-> m.frac]
      /\ m.secs \in Int /\ m.frac \in 0..(Unit - 1)
      /\ ts = Unit * m.secs + m.frac
  BY <1>2, FormatRoundsDown
<1>4. m.secs = n.secs /\ m.frac = n.frac
  <2> HIDE DEF m
  <2> QED
    BY <1>1, <1>3, OneSplit
<1> QED
  BY <1>1, <1>2, <1>3, <1>4
=============================================================================
