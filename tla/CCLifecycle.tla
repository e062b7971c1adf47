---------------------------- MODULE CCLifecycle ----------------------------
(***************************************************************************)
(* What the KLE unit promises about its cryptographic contexts (CCs),      *)
(* without Metadata, capacity accounting or CSKs: at any time a locker     *)
(* holds no CC, an Error State, a CC under a management operation or a     *)
(* usable CC; a CC becomes usable only by the completion of an operation   *)
(* that was opened on it, and then moves, is copied or is destroyed as a   *)
(* whole; at most Capacity CCs exist; and klnamedlocker follows the CC     *)
(* that it names, or names no locker when that CC is destroyed.            *)
(***************************************************************************)
EXTENDS Integers, FiniteSets

CONSTANTS Lockers, NONE, Capacity

VARIABLES
  cc,     \* the class of each locker
  name    \* the locker that klnamedlocker names, or NONE

Classes == {"unconfigured", "error", "config", "valid"}
Holds(f) == {k \in Lockers : f[k] \in {"config", "valid"}}

Init == cc = [k \in Lockers |-> "unconfigured"] /\ name = NONE

Becomes(k, class) == cc' = [cc EXCEPT ![k] = class]
LosesName(k) == name' = IF name = k THEN NONE ELSE name

\* A management instruction names its locker; an opening destroys the CC.
Open(k)     == Cardinality(Holds(cc) \cup {k}) <= Capacity /\ Becomes(k, "config") /\ name' = k
OpenFail(k) == (Becomes(k, "error") \/ Becomes(k, "unconfigured")) /\ name' = k
Reopen(k)   == cc[k] \in {"config", "valid"} /\ Becomes(k, "config") /\ name' = k
Finish(k)   == cc[k] = "config" /\ (Becomes(k, "valid") \/ Becomes(k, "error")) /\ name' = k
Point(k)    == name' = k /\ UNCHANGED cc

Fail(k)     == Becomes(k, "error") /\ UNCHANGED name
Clear(k)    == Becomes(k, "unconfigured") /\ LosesName(k)
ClearAll    == cc' = [k \in Lockers |-> "unconfigured"] /\ name' = NONE

\* A CC under a management operation moves, but is never copied.
Copy(d, s) ==
  /\ cc[s] # "config"
  /\ cc[s] = "valid" => Cardinality(Holds(cc) \cup {d}) <= Capacity
  /\ Becomes(d, cc[s]) /\ LosesName(d)
Move(d, s) ==
  /\ cc' = [cc EXCEPT ![d] = cc[s], ![s] = "unconfigured"]
  /\ name' = IF name = s THEN d ELSE IF name = d THEN NONE ELSE name
Exchange(d, s) ==
  /\ cc' = [cc EXCEPT ![d] = cc[s], ![s] = cc[d]]
  /\ name' = IF name = s THEN d ELSE IF name = d THEN s ELSE name

Next ==
  \/ \E k \in Lockers : Open(k) \/ OpenFail(k) \/ Reopen(k) \/ Finish(k) \/ Fail(k) \/ Clear(k)
  \/ \E k \in Lockers \cup {NONE} : Point(k)
  \/ ClearAll
  \/ \E d, s \in Lockers : d # s /\ (Copy(d, s) \/ Move(d, s) \/ Exchange(d, s))

Spec == Init /\ [][Next]_<<cc, name>>

\* No more CCs exist than the KLF capacity can hold (Rule GR53).
WithinCapacity == Cardinality(Holds(cc)) <= Capacity
=============================================================================
