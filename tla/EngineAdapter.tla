---------------------------- MODULE EngineAdapter ----------------------------
(***************************************************************************)
(* The stable-diffusion.cpp adapter behind the engine gateway: calls of    *)
(* several fibers to engines that keep native jobs, as HTTP requests that  *)
(* may time out, be answered late, or be cut off in the body.              *)
(*                                                                         *)
(* The engines are external: they refuse a submission before creating a    *)
(* job, never move a job backwards and never reuse an identifier.          *)
(***************************************************************************)
EXTENDS Integers, FiniteSets

CONSTANTS
  Callers,        \* fibers that may have a call in flight
  Instances,      \* the configured engines
  Registered,     \* those whose provider has an adapter
  Identifiers,    \* of native jobs; an engine gives them out in order
  MaxSubmissions  \* bound of the exploration

ASSUME AdapterAssumption ==
  /\ Registered \subseteq Instances
  /\ Identifiers \subseteq Nat \ {0}
  /\ MaxSubmissions \in Nat

VARIABLES
  native,         \* the engines' jobs: [Instances -> [Identifiers -> NativeStatus]]
  calls,          \* one call per caller
  strays,         \* requests their caller gave up before the engine took them
  known,          \* identifiers that submissions returned
  unsure,         \* submissions that ended without saying whether they arrived
  submissions     \* so far

adapterVars == <<native, calls, strays, known, unsure, submissions>>

Unfinished == {"queued", "generating"}

Ended == {"completed", "failed", "cancelled"}

NativeStatus == {"absent", "gone"} \cup Unfinished \cup Ended

Operations == {"submit", "poll", "cancel", "capabilities"}

NoCall == [pc |-> "idle", engine |-> 0, op |-> "poll", id |-> 0, number |-> 0,
           code |-> 0, status |-> "absent", outcome |-> "none"]

-----------------------------------------------------------------------------
(* The engines.                                                            *)

Reply(code, id, status) == [code |-> code, id |-> id, status |-> status]

Unknown(id) == {Reply(404, id, "gone"), Reply(410, id, "gone")}

FreshIdentifiers(e) ==
  {i \in Identifiers : /\ native[e][i] = "absent"
                       /\ \A k \in Identifiers : k < i => native[e][k] # "absent"}

\* What an engine may do with a request it takes: the code of its reply, and
\* the job the reply shows, which is then in that status.
Replies(e, op, id) ==
  CASE op = "submit" ->
         {Reply(202, i, "queued") : i \in FreshIdentifiers(e)}
           \cup {Reply(409, 0, "absent"), Reply(500, 0, "absent")}
    [] op = "capabilities" -> {Reply(200, 0, "absent"), Reply(500, 0, "absent")}
    [] op \in {"poll", "cancel"} /\ native[e][id] = "gone" -> Unknown(id)
    [] op = "poll" /\ native[e][id] # "gone" ->
         {Reply(200, id, native[e][id]), Reply(500, id, native[e][id])}
    [] op = "cancel" /\ native[e][id] # "gone" ->
         {Reply(200, id, IF native[e][id] \in Unfinished
                           THEN "cancelled" ELSE native[e][id]),
          Reply(409, id, native[e][id]),
          Reply(500, id, native[e][id])}

Applied(e, reply) ==
  native' = IF reply.id = 0 THEN native
            ELSE [native EXCEPT ![e][reply.id] = reply.status]

Advance(e, i) ==
  /\ \/ /\ native[e][i] = "queued"
        /\ native' = [native EXCEPT ![e][i] = "generating"]
     \/ /\ native[e][i] = "generating"
        /\ \E s \in {"completed", "failed"} :
             native' = [native EXCEPT ![e][i] = s]
     \/ /\ native[e][i] \in Ended      \* evicted
        /\ native' = [native EXCEPT ![e][i] = "gone"]
  /\ UNCHANGED <<calls, strays, known, unsure, submissions>>

RestartEngine(e) ==
  /\ \E i \in Identifiers : native[e][i] \in Unfinished \cup Ended
  /\ native' = [native EXCEPT ![e] = [i \in Identifiers |->
       IF native[e][i] = "absent" THEN "absent" ELSE "gone"]]
  /\ UNCHANGED <<calls, strays, known, unsure, submissions>>

\* A request that was given up on arrives all the same.
TakeStray(r) ==
  /\ strays' = strays \ {r}
  /\ \E reply \in Replies(r.engine, r.op, r.id) : Applied(r.engine, reply)
  /\ UNCHANGED <<calls, known, unsure, submissions>>

-----------------------------------------------------------------------------
(* The adapter.                                                            *)

\* Slip: every operation answers 200.
ExpectedOk(op) == 200

ExpectedStatus(op) == IF op = "submit" THEN 202 ELSE 200

ToEngineJobStatus(status) ==
  CASE status = "completed"  -> "succeeded"
    [] status = "generating" -> "running"
    [] OTHER                 -> status

\* Slip: a conflict says that the job is gone.
ConflictIsNotFound(op, code) ==
  CASE code = ExpectedStatus(op)  -> "decode"
    [] code \in {404, 409, 410}   -> "notFound"
    [] OTHER                      -> "text"

\* What the head of a response leads to: an outcome, or reading the body.
Classified(op, code) ==
  CASE code = ExpectedStatus(op) -> "decode"
    [] code = 409                -> "busy"
    [] code \in {404, 410}       -> "notFound"
    [] OTHER                     -> "text"

Finishes(c, outcome) ==
  LET call == calls[c] IN
  /\ calls' = [calls EXCEPT ![c] = [NoCall EXCEPT
       !.pc = "done", !.engine = call.engine, !.op = call.op, !.id = call.id,
       !.outcome = outcome]]
  /\ known' = IF call.op = "submit" /\ outcome = "submitted"
       THEN [known EXCEPT ![call.engine] = @ \cup {call.id}] ELSE known
  /\ unsure' = IF call.op = "submit" /\ outcome \in {"unavailable", "protocol"}
       THEN [unsure EXCEPT ![call.engine] = @ + 1] ELSE unsure

\* The router resolves the adapter of the engine's provider, the adapter sends
\* its request.  Polled and cancelled are the identifiers submissions returned.
Call(c, e, op, id) ==
  /\ calls[c].pc = "idle"
  /\ IF op \in {"poll", "cancel"} THEN id \in known[e] ELSE id = 0
  /\ op = "submit" => submissions < MaxSubmissions
  /\ submissions' = IF op = "submit" THEN submissions + 1 ELSE submissions
  /\ calls' = [calls EXCEPT ![c] =
       [NoCall EXCEPT
          !.pc = IF e \in Registered THEN "sent" ELSE "done",
          !.outcome = IF e \in Registered THEN "none" ELSE "protocol",
          !.engine = e, !.op = op, !.id = id, 
          !.number = IF op = "submit" THEN submissions' ELSE 0]]
  /\ UNCHANGED <<native, strays, known, unsure>>

Take(c) ==
  LET call == calls[c] IN
  /\ call.pc = "sent"
  /\ \E reply \in Replies(call.engine, call.op, call.id) :
       /\ Applied(call.engine, reply)
       /\ calls' = [calls EXCEPT ![c].pc = "taken", ![c].id = reply.id,
                                 ![c].code = reply.code,
                                 ![c].status = reply.status, ![c].number = 0]
  /\ UNCHANGED <<strays, known, unsure, submissions>>

\* The connection fails, or requestTimeoutSeconds pass without the head of a
\* response; the request may be on its way still.
NoAnswer(c) ==
  /\ calls[c].pc \in {"sent", "taken"}
  /\ Finishes(c, "unavailable")
  /\ strays' = IF calls[c].pc = "sent" /\ calls[c].op \in {"submit", "cancel"}
       THEN strays \cup {[engine |-> calls[c].engine, op |-> calls[c].op,
                          id |-> calls[c].id, number |-> calls[c].number]}
       ELSE strays
  /\ UNCHANGED <<native, submissions>>

HeadArrives(c) ==
  LET next == Classified(calls[c].op, calls[c].code) IN
  /\ calls[c].pc = "taken"
  /\ IF next \in {"decode", "text"}
       THEN /\ calls' = [calls EXCEPT ![c].pc = next]
            /\ UNCHANGED <<known, unsure>>
       ELSE Finishes(c, next)
  /\ UNCHANGED <<native, strays, submissions>>

Decoded(call) ==
  CASE call.op = "submit"       -> "submitted"
    [] call.op = "capabilities" -> "capable"
    [] OTHER                    -> ToEngineJobStatus(call.status)

\* No time limit applies to the body.  One that breaks off, or is not what the
\* schema says, is a protocol error; of an unexpected status it may be missing.
BodyEnds(c) ==
  /\ \/ calls[c].pc = "decode" /\ Finishes(c, Decoded(calls[c]))
     \/ calls[c].pc = "decode" /\ Finishes(c, "protocol")
     \/ calls[c].pc = "text" /\ Finishes(c, "rejected")
  /\ UNCHANGED <<native, strays, submissions>>

Return(c) ==
  /\ calls[c].pc = "done"
  /\ calls' = [calls EXCEPT ![c] = NoCall]
  /\ UNCHANGED <<native, strays, known, unsure, submissions>>

-----------------------------------------------------------------------------
Init ==
  /\ native = [e \in Instances |-> [i \in Identifiers |-> "absent"]]
  /\ calls = [c \in Callers |-> NoCall]
  /\ strays = {}
  /\ known = [e \in Instances |-> {}]
  /\ unsure = [e \in Instances |-> 0]
  /\ submissions = 0

Adapter(c) ==
  \/ \E e \in Instances, op \in Operations, id \in Identifiers \cup {0} :
       Call(c, e, op, id)
  \/ NoAnswer(c)
  \/ HeadArrives(c)
  \/ BodyEnds(c)
  \/ Return(c)

Remote ==
  \/ \E c \in Callers : Take(c)
  \/ \E r \in strays : TakeStray(r)
  \/ \E e \in Instances :
       RestartEngine(e) \/ \E i \in Identifiers : Advance(e, i)

Next == Remote \/ \E c \in Callers : Adapter(c)

Spec == Init /\ [][Next]_adapterVars

-----------------------------------------------------------------------------
(* Properties.                                                             *)

\* Work that no caller knows of exists only where a submission ended with
\* "unavailable" or "protocol", at most one job for each: "rejected", "busy"
\* and "notFound" are certain, and nothing a caller was told is forgotten.
\* What the retry of a failed submission (dispatcher-submission.service.ts)
\* can duplicate is therefore bounded by those two errors.
UnknownWorkIsExplained ==
  \A e \in Instances :
    LET answering == {calls[c].id : c \in {d \in Callers :
              calls[d].pc \in {"taken", "decode"} /\ calls[d].op = "submit"
                /\ calls[d].engine = e}}
        created == {i \in Identifiers : native[e][i] # "absent"}
    IN Cardinality(created \ (known[e] \cup answering)) <= unsure[e]

\* What a worker concludes from an answer is still so when it acts on it, as
\* late as that may be: an outcome is final, a lost job is lost (so that
\* redoing it duplicates nothing), and a running one had started.
AnswersAreEvidence ==
  \A c \in Callers :
    LET call == calls[c]
        now == native[call.engine][call.id]
    IN call.pc = "done" /\ call.op \in {"poll", "cancel"} =>
         CASE call.outcome = "succeeded" -> now \in {"completed", "gone"}
           [] call.outcome \in {"failed", "cancelled"} ->
                now \in {call.outcome, "gone"}
           [] call.outcome = "notFound" -> now = "gone"
           [] call.outcome = "running"  -> now \notin {"absent", "queued"}
           [] OTHER -> TRUE
=============================================================================
