----------------------------- MODULE FlashStore -----------------------------
(***************************************************************************)
(* What a flash driver promises its client about the longwords.  A job is  *)
(* open at most at a time.  While it is, longwords of its area change, and *)
(* no others: each of them at most once, into what is wanted there or, if  *)
(* something goes wrong, into what nobody knows.  A longword once touched  *)
(* is left alone, for programming it twice would spoil it.  The answer is  *)
(* "success" only when everything is as wanted.  A reset may come at any   *)
(* time and spoil what is being worked on, and nothing else.               *)
(***************************************************************************)
EXTENDS Naturals

CONSTANTS Cells,    \* the longwords
          Spoilt    \* what nobody knows

VARIABLES
  store,      \* what the longwords hold
  base,       \* what they held when the last job was opened
  area,       \* the longwords it is about
  wanted,     \* what they are to hold when it is done
  open,       \* is it still being worked on?
  answer      \* what the client was told: "none", "success" or "error"

storeVars == <<store, base, area, wanted, open, answer>>

SameAs(a, b) == \A i \in Cells : a[i] = b[i]

\* The longwords of the job that nothing has touched yet.
Fresh == {i \in area : store[i] = base[i]}

StoreInit ==
  /\ SameAs(base, store) /\ SameAs(wanted, store)
  /\ area = {} /\ open = FALSE /\ answer = "none"

\* A job is opened: outside its area everything is to stay.
Ask ==
  /\ ~open /\ open'
  /\ SameAs(store', store) /\ SameAs(base', store)
  /\ \A i \in Cells \ area' : wanted'[i] = store[i]
  /\ answer' = "none"

\* Work on the job, which may be the last there is for a job that was left before
\* it was done.
Work ==
  /\ open
  /\ \A i \in Cells :
       \/ store'[i] = store[i]
       \/ i \in Fresh /\ store'[i] \in {wanted[i], Spoilt}
  /\ answer' = "none"
  /\ UNCHANGED <<base, area, wanted>>

\* The client is told, or the job is left with no word of it.
Answer ==
  /\ open /\ ~open'
  /\ answer' \in {"none", "success", "error"}
  /\ answer' = "success" => SameAs(store, wanted)
  /\ UNCHANGED <<store, base, area, wanted>>

\* The client goes on to something that changes no longword.
Forget ==
  /\ answer' = "none"
  /\ UNCHANGED <<store, base, area, wanted, open>>

Crash ==
  /\ \A i \in Cells :
       \/ store'[i] = store[i]
       \/ open /\ i \in Fresh /\ store'[i] = Spoilt
  /\ SameAs(base', store') /\ SameAs(wanted', store')
  /\ area' = {} /\ open' = FALSE /\ answer' = "none"

StoreNext == Ask \/ Work \/ Answer \/ Forget \/ Crash

StoreSpec == StoreInit /\ [][StoreNext]_storeVars
=============================================================================
