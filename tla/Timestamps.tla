----------------------------- MODULE Timestamps -----------------------------
(***************************************************************************)
(* snapshot.Format and snapshot.Parse: a snapshot is a number of           *)
(* microseconds in the database and a name in the archive directory, which *)
(* is also the path segment of its pages.                                  *)
(*                                                                         *)
(* A name is its seconds, the number of its fractional digits and the      *)
(* number they form: "7.05" is [secs |-> 7, len |-> 2, frac |-> 5], and    *)
(* "7" has no fractional digits.  Signs within the fraction and leading    *)
(* zeros of the seconds, which ParseInt reads over, are left out.          *)
(***************************************************************************)
EXTENDS Integers, Sequences

CONSTANT Half  \* int64 is -Half .. Half - 1

Unit   == 1000000

ASSUME HalfAssumption == Half \in Nat /\ Half >= Unit

Places == <<1000000, 100000, 10000, 1000, 100, 10, 1>>

Int64 == {i \in Int : -Half <= i /\ i < Half}

\* Names ParseInt and Parse accept: at most six fractional digits.
Name == {n \in [secs : Int64, len : 0..6, frac : Nat] :
           n.frac * Places[n.len + 1] < Unit}

\* Go's int64 arithmetic wraps around.
Wrap(i) == ((i + Half) % (2 * Half)) - Half

\* Go's division truncates towards zero, and its remainder has the sign of
\* the dividend.
Quo(i) == IF i >= 0 THEN i \div Unit ELSE -((-i) \div Unit)
Rem(i) == i - Unit * Quo(i)

Format(ts) ==
    IF Rem(ts) < 0
    THEN [secs |-> Quo(ts) - 1, len |-> 6, frac |-> Rem(ts) + Unit]
    ELSE [secs |-> Quo(ts), len |-> 6, frac |-> Rem(ts)]

\* The fraction is padded with zeros to six digits.
Parse(n) == Wrap(Wrap(n.secs * Unit) + n.frac * Places[n.len + 1])

Canonical(n) == n.len = 6
=============================================================================
