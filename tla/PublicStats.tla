------------------------------- MODULE PublicStats -------------------------------
(***************************************************************************)
(* What the callers of StorageStats can rely on, whatever is cached, shared *)
(* or raced for behind it: a call is answered with numbers that were true   *)
(* of each table, and none of them is older than any number that anybody    *)
(* had been given when the call was made.  A call may also fail.            *)
(***************************************************************************)
EXTENDS Naturals

CONSTANTS Callers, None

VARIABLES
  uploads, slabs,   \* how often each table has changed
  given,            \* per table, the newest number given to anybody
  last,             \* the numbers that were given last
  asked             \* per caller, what had been given when it called

vars == <<uploads, slabs, given, last, asked>>

Newer(m, n) == IF m < n THEN n ELSE m
Newest(s, t) == [uploads |-> Newer(s.uploads, t.uploads), slabs |-> Newer(s.slabs, t.slabs)]

Init ==
  /\ uploads = 0 /\ slabs = 0
  /\ given = [uploads |-> 0, slabs |-> 0]
  /\ last = given
  /\ asked = [c \in Callers |-> None]

Change ==
  /\ uploads' >= uploads /\ slabs' >= slabs
  /\ UNCHANGED <<given, last, asked>>

Ask(c) ==
  /\ asked[c] = None
  /\ asked' = [asked EXCEPT ![c] = given]
  /\ UNCHANGED <<uploads, slabs, given, last>>

Give(c) ==
  /\ asked[c] # None
  /\ asked' = [asked EXCEPT ![c] = None]
  /\ \E u \in asked[c].uploads .. uploads, s \in asked[c].slabs .. slabs :
       last' = [uploads |-> u, slabs |-> s]
  /\ given' = Newest(given, last')
  /\ UNCHANGED <<uploads, slabs>>

Fail(c) ==
  /\ asked[c] # None
  /\ asked' = [asked EXCEPT ![c] = None]
  /\ UNCHANGED <<uploads, slabs, given, last>>

Next == Change \/ \E c \in Callers : Ask(c) \/ Give(c) \/ Fail(c)

Spec == Init /\ [][Next]_vars
=============================================================================
