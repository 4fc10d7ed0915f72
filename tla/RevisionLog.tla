---------------------------- MODULE RevisionLog ----------------------------
(***************************************************************************)
(* What the PESE store promises whoever keeps project state in it, without *)
(* files, locks, leases or crashes: state revisions form one growing chain *)
(* in which nothing is replaced, and an update that was reported as done   *)
(* is in it for ever.  PESEStore implements this specification.            *)
(***************************************************************************)
EXTENDS Naturals, Sequences

CONSTANTS Writers,  \* who may publish a revision
          Root      \* the writer of the initial revision, and its predecessor

VARIABLES log,    \* the revisions, each naming its writer and that of its predecessor
          acked   \* revisions whose update was reported as done

vars == <<log, acked>>

Initial == [rev |-> 1, by |-> Root, prev |-> Root]

\* The revision that w builds on e; the hash of e is abstracted to its writer.
Successor(e, w) == [rev |-> e.rev + 1, by |-> w, prev |-> e.by]

Latest(s) == s[Len(s)]

Init == log = <<Initial>> /\ acked = {}

Publish(w) ==
  /\ log' = Append(log, Successor(Latest(log), w))
  /\ UNCHANGED acked

Acknowledge(n) ==
  /\ acked' = acked \cup {log[n]}
  /\ UNCHANGED log

Next == (\E w \in Writers : Publish(w)) \/ (\E n \in 1..Len(log) : Acknowledge(n))

Spec == Init /\ [][Next]_vars

-----------------------------------------------------------------------------
\* Every revision has its number and names its predecessor.
IsChain ==
  /\ Len(log) > 0 /\ log[1] = Initial
  /\ \A n \in 2..Len(log) : log[n] = Successor(log[n - 1], log[n].by)

\* A reported update is in the chain.
AckedIsLogged == \A e \in acked : \E n \in 1..Len(log) : log[n] = e
=============================================================================
