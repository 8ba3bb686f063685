----------------------------- MODULE CommitLog -----------------------------
(***************************************************************************)
(* What the metadata log promises the callers of write(), whatever happens *)
(* to servers, threads and RPCs below it:                                  *)
(*   chain    the committed entries, in log order                          *)
(*   answer   what the caller of each write was told                       *)
(* The chain grows at its end, holds a write at most once, and changes     *)
(* only in the step that answers a write OK; that write then stands in it. *)
(* The same step may commit earlier entries, whatever their callers were   *)
(* told.  A caller is answered once, and a crash is no step at all.        *)
(***************************************************************************)
EXTENDS Naturals, Sequences

CONSTANT Ids        \* the writes

VARIABLES chain, answer

Extends(s, t) == \A i \in DOMAIN s : i \in DOMAIN t /\ t[i] = s[i]

OnceEach(s) == \A i, j \in DOMAIN s : i # j => s[i] # s[j]

Init ==
    /\ chain = << >>
    /\ answer = [id \in Ids |-> "none"]

Commit(id) ==
    /\ answer[id] = "none"
    /\ answer' = [answer EXCEPT ![id] = "OK"]
    /\ chain' \in Seq(Ids)
    /\ Extends(chain, chain')
    /\ OnceEach(chain')
    /\ \E i \in DOMAIN chain' : chain'[i] = id

Fail(id) ==
    /\ answer[id] = "none"
    /\ answer' = [answer EXCEPT ![id] = "UNAVAILABLE"]
    /\ UNCHANGED chain

Next == \E id \in Ids : Commit(id) \/ Fail(id)

Spec == Init /\ [][Next]_<<chain, answer>>
=============================================================================
