------------------------------ MODULE Screens ------------------------------
(***************************************************************************)
(* A screen of the portal: a query whose answer it shows from the cache, a *)
(* draft, and mutations that send the draft and, when they succeed, have   *)
(* the query asked again. The detail of a ticket and the manager of the    *)
(* knowledge base are made like this; other people write too.              *)
(***************************************************************************)
EXTENDS Integers

CONSTANTS Saves, Texts, MaxRev, Nil

(***************************************************************************)
(* rev counts the writes on the server, and a save knows its own. cache is *)
(* the revision shown and whether the last fetch has failed, fetch the one *)
(* under way: what it has read, Nil before the server has answered. draft  *)
(* is the text in the form, posted what has reached the server.            *)
(***************************************************************************)
VARIABLES rev, posted, cache, fetch, draft, save

vars == <<rev, posted, cache, fetch, draft, save>>

NoSave == [pc |-> "idle", text |-> Nil, rev |-> Nil]
NoFetch == [pc |-> "none", rev |-> Nil]
Asked == [pc |-> "asked", rev |-> Nil]

Init ==
  /\ rev = 0 /\ posted = {}
  /\ cache = [rev |-> 0, failed |-> FALSE]
  /\ fetch = NoFetch
  /\ draft = Nil
  /\ save = [s \in Saves |-> NoSave]

At(s, pc) == save[s].pc = pc
Becomes(s, r) == save' = [save EXCEPT ![s] = r]

\* The saves that wait for the fetch under way go on when it ends, however it does.
Released == [s \in Saves |-> IF At(s, "refetch") THEN [save[s] EXCEPT !.pc = "done"] ELSE save[s]]

-----------------------------------------------------------------------------
\* Somebody else writes.
OthersWrite ==
  /\ rev < MaxRev
  /\ rev' = rev + 1
  /\ UNCHANGED <<posted, cache, fetch, draft, save>>

Type(text) ==
  /\ draft' = text
  /\ UNCHANGED <<rev, posted, cache, fetch, save>>

\* The query is asked when the screen is mounted, and again when its interval has
\* passed; while it is under way it is not asked twice.
Ask ==
  /\ fetch.pc = "none"
  /\ fetch' = Asked
  /\ UNCHANGED <<rev, posted, cache, draft, save>>

Read ==
  /\ fetch.pc = "asked"
  /\ fetch' = [pc |-> "read", rev |-> rev]
  /\ UNCHANGED <<rev, posted, cache, draft, save>>

Arrive ==
  /\ fetch.pc = "read"
  /\ cache' = [rev |-> fetch.rev, failed |-> FALSE]
  /\ fetch' = NoFetch
  /\ save' = Released
  /\ UNCHANGED <<rev, posted, draft>>

FetchFailsSilently ==  \* Fault: those who wait for the fetch are not told
  /\ fetch.pc # "none"
  /\ cache' = [cache EXCEPT !.failed = TRUE]
  /\ fetch' = NoFetch
  /\ UNCHANGED <<rev, posted, draft, save>>

\* The second attempt fails too: the screen keeps what it showed.
FetchFails ==
  /\ fetch.pc # "none"
  /\ cache' = [cache EXCEPT !.failed = TRUE]
  /\ fetch' = NoFetch
  /\ save' = Released
  /\ UNCHANGED <<rev, posted, draft>>

-----------------------------------------------------------------------------
\* The text is what the draft was when it was sent. The detail of a ticket lets the
\* user send again before the first answer, the manager does not.
Submit(s) ==
  /\ At(s, "idle") /\ draft # Nil
  /\ Becomes(s, [pc |-> "sent", text |-> draft, rev |-> Nil])
  /\ UNCHANGED <<rev, posted, cache, fetch, draft>>

Accept(s) ==
  /\ At(s, "sent") /\ rev < MaxRev
  /\ rev' = rev + 1
  /\ posted' = posted \cup {save[s].text}
  /\ Becomes(s, [save[s] EXCEPT !.pc = "accepted", !.rev = rev + 1])
  /\ UNCHANGED <<cache, fetch, draft>>

RefusedAll(s) ==  \* Fault: the form is reset whatever has become of the request
  /\ save[s].pc \in {"sent", "accepted"}
  /\ Becomes(s, NoSave)
  /\ draft' = Nil
  /\ UNCHANGED <<rev, posted, cache, fetch>>

\* The server refuses, or the network loses the request or the answer; the form
\* keeps its draft.
Fail(s) ==
  /\ save[s].pc \in {"sent", "accepted"}
  /\ Becomes(s, NoSave)
  /\ UNCHANGED <<rev, posted, cache, fetch, draft>>

InvalidateLater(s) ==  \* Fault: a fetch that is under way is taken for the new one
  /\ At(s, "accepted")
  /\ fetch' = IF fetch.pc = "none" THEN Asked ELSE fetch
  /\ Becomes(s, [save[s] EXCEPT !.pc = "refetch"])
  /\ UNCHANGED <<rev, posted, cache, draft>>

\* onSuccess: a fetch under way is dropped, those who waited for it go on, and the
\* query is asked again; the mutation ends when that has been answered.
Invalidate(s) ==
  /\ At(s, "accepted")
  /\ fetch' = Asked
  /\ save' = [Released EXCEPT ![s] = [save[s] EXCEPT !.pc = "refetch"]]
  /\ UNCHANGED <<rev, posted, cache, draft>>

\* The handler goes on after the mutation and empties the form, whatever has been
\* typed into it since.
Reset(s) ==
  /\ At(s, "done")
  /\ Becomes(s, NoSave)
  /\ draft' = Nil
  /\ UNCHANGED <<rev, posted, cache, fetch>>

Next ==
  \/ OthersWrite \/ Ask \/ Read \/ Arrive \/ FetchFails
  \/ \E text \in Texts : Type(text)
  \/ \E s \in Saves : Submit(s) \/ Accept(s) \/ Fail(s) \/ Invalidate(s) \/ Reset(s)

\* What is under way ends.
Fairness ==
  /\ WF_vars(Read \/ Arrive \/ FetchFails)
  /\ \A s \in Saves : WF_vars(Accept(s) \/ Fail(s) \/ Invalidate(s) \/ Reset(s))

Spec == Init /\ [][Next]_vars
FairSpec == Spec /\ Fairness

-----------------------------------------------------------------------------
\* The screen and the server keep to their types.
TypeOK ==
  /\ rev \in 0..MaxRev /\ posted \subseteq Texts
  /\ cache \in [rev : 0..MaxRev, failed : BOOLEAN]
  /\ fetch \in [pc : {"none", "asked", "read"}, rev : 0..MaxRev \cup {Nil}]
  /\ draft \in Texts \cup {Nil}
  /\ save \in [Saves -> [pc : {"idle", "sent", "accepted", "refetch", "done"},
                         text : Texts \cup {Nil}, rev : 0..MaxRev \cup {Nil}]]

\* When a mutation ends, the screen shows a state of the server with its effect, or
\* is about to, or says that it could not; an answer that was read before the
\* mutation and arrives after it is never taken for the new one.
EffectIsShown ==
  \A s \in Saves : At(s, "done") =>
    cache.rev >= save[s].rev \/ cache.failed \/ fetch.pc # "none"

\* A draft leaves the form only when something the user sent has been posted: what
\* failed can be sent again. (The resets come after the await, not beside it.)
DraftIsKept ==
  [][draft # Nil /\ draft' = Nil =>
       \E s \in Saves : save[s].text \in posted /\ save[s].rev # Nil]_vars

\* Every save ends, also when the fetch it waits for is dropped or fails.
SavesEnd == \A s \in Saves : ~At(s, "idle") ~> At(s, "idle")

\* What a screen shows and what it lets the user send again agree with the server.
ScreenHolds == []EffectIsShown /\ DraftIsKept
=============================================================================
