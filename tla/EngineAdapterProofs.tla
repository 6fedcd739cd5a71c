------------------------ MODULE EngineAdapterProofs ------------------------
(***************************************************************************)
(* Proofs about the adapter, for any callers, engines and identifiers: an  *)
(* answer stays true while its response is on the way and after.           *)
(*                                                                         *)
(* The argument is monotonicity.  Every step moves a native job onward, an *)
(* answer says where a job was when the engine took the request, and what  *)
(* AnswersAreEvidence asks of an outcome holds from there on.              *)
(***************************************************************************)
EXTENDS EngineAdapter, FiniteSetTheorems, TLAPS

\* Where a native job may be found once it was seen in that status.
Onward(status) ==
  CASE status = "absent"     -> NativeStatus
    [] status = "queued"     -> NativeStatus \ {"absent"}
    [] status = "generating" -> {"generating", "gone"} \cup Ended
    [] OTHER                 -> {status, "gone"}

Outcomes ==
  {"none", "submitted", "capable", "unavailable", "protocol", "busy", "rejected",
   "notFound", "succeeded", "running"} \cup NativeStatus

CallRecord ==
  [pc : {"idle", "sent", "taken", "decode", "text", "done"},
   engine : Instances \cup {0}, op : Operations, id : Identifiers \cup {0},
   number : Nat, code : Nat, status : NativeStatus,
   outcome : Outcomes]

Exists(e, i) ==
  e \in Instances /\ i \in Identifiers /\ native[e][i] # "absent"

AboutJob(call) == call.op \in {"poll", "cancel"}

Outstanding(call) == call.pc \in {"taken", "decode", "text"}

\* What the outcome of a finished call is evidence of.
EvidencedBy(outcome, now) ==
  CASE outcome = "succeeded" -> now \in {"completed", "gone"}
    [] outcome \in {"failed", "cancelled"} -> now \in {outcome, "gone"}
    [] outcome = "notFound"  -> now = "gone"
    [] outcome = "running"   -> now \notin {"absent", "queued"}
    [] OTHER                 -> TRUE

GoodCall(call) ==
  /\ call.pc # "idle" => call.engine \in Instances
  /\ call.pc # "idle" /\ AboutJob(call) => Exists(call.engine, call.id)
  /\ Outstanding(call) /\ AboutJob(call) =>
       /\ native[call.engine][call.id] \in Onward(call.status)
       /\ call.code \in {404, 410} => call.status = "gone"
  /\ Outstanding(call) /\ call.op = "submit" /\ call.code = 202 =>
       Exists(call.engine, call.id)
  /\ call.pc = "decode" => call.code = ExpectedStatus(call.op)
  /\ call.pc = "done" /\ AboutJob(call) =>
       EvidencedBy(call.outcome, native[call.engine][call.id])

GoodStray(r) ==
  /\ r.engine \in Instances
  /\ \/ r.op = "submit"
     \/ r.op = "cancel" /\ Exists(r.engine, r.id)

AdapterTypeOK ==
  /\ native \in [Instances -> [Identifiers -> NativeStatus]]
  /\ calls \in [Callers -> CallRecord]
  /\ known \in [Instances -> SUBSET Identifiers]
  /\ submissions \in Nat

\* The inductive invariant: requests and answers about a job are about one
\* that exists, and an answer on its way tells where its job has been.
AdapterInv ==
  /\ AdapterTypeOK
  /\ \A c \in Callers : GoodCall(calls[c])
  /\ \A r \in strays : GoodStray(r)
  /\ \A e \in Instances : \A i \in known[e] : Exists(e, i)

\* No step takes a native job back.
Moves ==
  /\ native' \in [Instances -> [Identifiers -> NativeStatus]]
  /\ \A e \in Instances, i \in Identifiers :
       native'[e][i] \in Onward(native[e][i])

-----------------------------------------------------------------------------
(* The order of the native statuses.                                       *)

LEMMA OnwardFacts ==
  /\ \A s \in NativeStatus : s \in Onward(s)
  /\ \A s, t, u \in NativeStatus :
       t \in Onward(s) /\ u \in Onward(t) => u \in Onward(s)
  /\ \A s \in NativeStatus : s # "absent" => "absent" \notin Onward(s)
BY DEF Onward, NativeStatus, Unfinished, Ended

\* What an outcome is evidence of stays so as the job moves on.
LEMMA EvidenceKept ==
  ASSUME NEW outcome, NEW now \in NativeStatus, NEW next \in Onward(now),
         EvidencedBy(outcome, now)
  PROVE  EvidencedBy(outcome, next)
BY DEF EvidencedBy, Onward, NativeStatus, Unfinished, Ended

\* The outcome a status is decoded to is evidenced by every later status.
LEMMA StatusIsEvidence ==
  ASSUME NEW s \in NativeStatus, NEW now \in Onward(s)
  PROVE  EvidencedBy(ToEngineJobStatus(s), now)
BY DEF EvidencedBy, ToEngineJobStatus, Onward, NativeStatus, Unfinished, Ended

LEMMA ExistsStays ==
  ASSUME AdapterTypeOK, Moves, NEW e, NEW i, Exists(e, i)
  PROVE  Exists(e, i)'
<1>1. native[e][i] \in NativeStatus /\ native'[e][i] \in Onward(native[e][i])
  BY DEF AdapterTypeOK, Moves, Exists
<1> QED BY <1>1, OnwardFacts DEF Exists

\* A call that a step leaves alone stays good.
LEMMA CallStays ==
  ASSUME AdapterTypeOK, Moves, NEW c \in Callers, GoodCall(calls[c]),
         calls'[c] = calls[c]
  PROVE  GoodCall(calls[c])'
<1> DEFINE call == calls[c]
           now  == native[call.engine][call.id]
           next == native'[call.engine][call.id]
<1>1. call \in CallRecord BY DEF AdapterTypeOK
<1>2. ASSUME Exists(call.engine, call.id)
      PROVE  /\ now \in NativeStatus /\ next \in NativeStatus
             /\ next \in Onward(now)
  BY <1>2 DEF AdapterTypeOK, Moves, Exists
<1>3. ASSUME Exists(call.engine, call.id)
      PROVE  Exists(call.engine, call.id)'
  BY <1>3, ExistsStays DEF Exists
<1>4. ASSUME call.pc # "idle", AboutJob(call)
      PROVE  /\ Exists(call.engine, call.id)
             /\ now \in Onward(call.status) => next \in Onward(call.status)
             /\ EvidencedBy(call.outcome, now) => EvidencedBy(call.outcome, next)
  <2>1. Exists(call.engine, call.id) BY <1>4 DEF GoodCall
  <2>2. call.status \in NativeStatus BY <1>1 DEF CallRecord
  <2> QED BY <2>1, <2>2, <1>2, OnwardFacts, EvidenceKept
<1>5. (call.pc # "idle" => call.engine \in Instances)' BY DEF GoodCall
<1>6. (call.pc # "idle" /\ AboutJob(call) => Exists(call.engine, call.id))'
  BY <1>4, <1>3 DEF AboutJob, Exists
<1>7. (Outstanding(call) /\ AboutJob(call) =>
         /\ native[call.engine][call.id] \in Onward(call.status)
         /\ call.code \in {404, 410} => call.status = "gone")'
  BY <1>4 DEF AboutJob, Outstanding, GoodCall
<1>8. (Outstanding(call) /\ call.op = "submit" /\ call.code = 202 =>
         Exists(call.engine, call.id))'
  BY <1>3 DEF Outstanding, GoodCall, Exists
<1>9. (call.pc = "decode" => call.code = ExpectedStatus(call.op))'
  BY DEF GoodCall
<1>10. (call.pc = "done" /\ AboutJob(call) =>
          EvidencedBy(call.outcome, native[call.engine][call.id]))'
  BY <1>4 DEF AboutJob, GoodCall
<1> QED BY <1>5, <1>6, <1>7, <1>8, <1>9, <1>10 DEF GoodCall

\* So do the rest of the calls, the strays and the known identifiers.
LEMMA OthersStay ==
  ASSUME AdapterInv, Moves
  PROVE  /\ \A c \in Callers : calls'[c] = calls[c] => GoodCall(calls[c])'
         /\ \A r \in strays : GoodStray(r)'
         /\ \A e \in Instances : \A i \in known[e] : Exists(e, i)'
<1>1. AdapterTypeOK BY DEF AdapterInv
<1>2. \A r \in strays : GoodStray(r)' BY <1>1, ExistsStays DEF AdapterInv, GoodStray
<1>3. \A e \in Instances : \A i \in known[e] : Exists(e, i)'
  BY <1>1, ExistsStays DEF AdapterInv
<1>4. \A c \in Callers : calls'[c] = calls[c] => GoodCall(calls[c])'
  BY <1>1, CallStays DEF AdapterInv
<1> QED BY <1>2, <1>3, <1>4

-----------------------------------------------------------------------------
(* The engines.                                                            *)

\* A request an engine can be asked for.
Sensible(e, op, id) ==
  /\ e \in Instances
  /\ op \in Operations
  /\ op \in {"poll", "cancel"} => Exists(e, id)

\* Rewriting one status onward is a move.
LEMMA OneMoves ==
  ASSUME AdapterTypeOK, NEW e \in Instances, NEW i \in Identifiers,
         NEW s \in Onward(native[e][i]), native' = [native EXCEPT ![e][i] = s]
  PROVE  Moves /\ native'[e][i] = s
<1>1. s \in NativeStatus
  BY DEF Onward, NativeStatus, Unfinished, Ended, AdapterTypeOK
<1> QED BY <1>1, OnwardFacts DEF Moves, AdapterTypeOK

LEMMA StandingStill == ASSUME AdapterTypeOK, UNCHANGED native PROVE Moves
BY OnwardFacts DEF Moves, AdapterTypeOK

\* What a reply to a request about a job says, and what it does to the job.
LEMMA JobReplies ==
  ASSUME AdapterTypeOK, NEW e, NEW op \in {"poll", "cancel"}, NEW id,
         Sensible(e, op, id), NEW reply \in Replies(e, op, id)
  PROVE  /\ reply.id = id /\ reply.code \in {200, 404, 409, 410, 500}
         /\ reply.status \in NativeStatus /\ reply.status \in Onward(native[e][id])
         /\ reply.code \in {404, 410} => reply.status = "gone"
<1> DEFINE now == native[e][id]
<1>1. now \in NativeStatus /\ now # "absent"
  BY DEF Sensible, Exists, AdapterTypeOK
<1>2. now \in Onward(now) BY <1>1, OnwardFacts
<1>3. now \in Unfinished => "cancelled" \in Onward(now)
  BY DEF Onward, NativeStatus, Unfinished, Ended
<1>4. CASE now = "gone"
  <2>1. reply \in Unknown(id) BY <1>4 DEF Replies
  <2> QED BY <2>1, <1>2, <1>4 DEF Unknown, Reply, NativeStatus
<1>5. CASE now # "gone" /\ op = "poll"
  <2>1. reply \in {Reply(200, id, now), Reply(500, id, now)} BY <1>5 DEF Replies
  <2> QED BY <2>1, <1>1, <1>2 DEF Reply
<1>6. CASE now # "gone" /\ op = "cancel"
  <2>1. reply \in {Reply(200, id, IF now \in Unfinished THEN "cancelled" ELSE now),
                   Reply(409, id, now), Reply(500, id, now)}
    BY <1>6 DEF Replies
  <2> QED BY <2>1, <1>1, <1>2, <1>3 DEF Reply, NativeStatus, Ended
<1> QED BY <1>4, <1>5, <1>6

\* A reply to a submission names a job that did not exist, or none.
LEMMA SubmitReplies ==
  ASSUME NEW e \in Instances, NEW id, NEW reply \in Replies(e, "submit", id)
  PROVE  \/ /\ reply.code = 202 /\ reply.status = "queued"
            /\ reply.id \in Identifiers /\ native[e][reply.id] = "absent"
         \/ reply.code \in {409, 500} /\ reply.id = 0 /\ reply.status = "absent"
<1>1. reply \in {Reply(202, i, "queued") : i \in FreshIdentifiers(e)}
                  \cup {Reply(409, 0, "absent"), Reply(500, 0, "absent")}
  BY DEF Replies
<1> QED BY <1>1 DEF FreshIdentifiers, Reply

LEMMA CapabilityReplies ==
  ASSUME NEW e, NEW id, NEW reply \in Replies(e, "capabilities", id)
  PROVE  reply.code \in {200, 500} /\ reply.id = 0 /\ reply.status = "absent"
BY DEF Replies, Reply

\* What an engine does with a request is a move, and leaves what it answers.
LEMMA Answers ==
  ASSUME AdapterTypeOK, NEW e, NEW op, NEW id, Sensible(e, op, id),
         NEW reply \in Replies(e, op, id), Applied(e, reply)
  PROVE  /\ Moves
         /\ reply.code \in Nat /\ reply.id \in Identifiers \cup {0}
         /\ reply.status \in NativeStatus
         /\ op \in {"poll", "cancel"} =>
              /\ reply.id = id /\ native'[e][id] = reply.status
              /\ reply.code \in {404, 410} => reply.status = "gone"
         /\ op = "submit" /\ reply.code = 202 => Exists(e, reply.id)'
<1>1. e \in Instances /\ op \in Operations BY DEF Sensible
<1>2. Identifiers \subseteq Nat \ {0} BY AdapterAssumption
<1>3. reply.id = 0 => Moves BY StandingStill DEF Applied
<1>4. ASSUME reply.id \in Identifiers, reply.status \in Onward(native[e][reply.id])
      PROVE  Moves /\ native'[e][reply.id] = reply.status
  <2> DEFINE i == reply.id
             s == reply.status
  <2>1. native' = [native EXCEPT ![e][i] = s] BY <1>2, <1>4 DEF Applied
  <2>2. i \in Identifiers /\ s \in Onward(native[e][i]) BY <1>4
  <2> HIDE DEF i, s
  <2>3. Moves /\ native'[e][i] = s BY <1>1, <2>1, <2>2, OneMoves
  <2> QED BY <2>3 DEF i, s
<1>5. CASE op \in {"poll", "cancel"}
  <2>1. id \in Identifiers BY <1>5 DEF Sensible, Exists
  <2>2. /\ reply.id = id /\ reply.code \in {200, 404, 409, 410, 500}
        /\ reply.status \in NativeStatus /\ reply.status \in Onward(native[e][id])
        /\ reply.code \in {404, 410} => reply.status = "gone"
    BY <1>5, JobReplies
  <2> QED BY <2>1, <2>2, <1>4, <1>5
<1>6. CASE op = "submit"
  <2>1. \/ /\ reply.code = 202 /\ reply.status = "queued"
           /\ reply.id \in Identifiers /\ native[e][reply.id] = "absent"
        \/ reply.code \in {409, 500} /\ reply.id = 0 /\ reply.status = "absent"
    BY <1>1, <1>6, SubmitReplies
  <2>2. "queued" \in NativeStatus /\ "absent" \in NativeStatus
        /\ "queued" \in Onward("absent")
    BY DEF NativeStatus, Unfinished, Onward
  <2> QED BY <1>1, <2>1, <2>2, <1>3, <1>4, <1>6 DEF Exists
<1>7. CASE op = "capabilities"
  <2>1. reply.code \in {200, 500} /\ reply.id = 0 /\ reply.status = "absent"
    BY <1>7, CapabilityReplies
  <2> QED BY <2>1, <1>3, <1>7 DEF NativeStatus
<1> QED BY <1>1, <1>5, <1>6, <1>7 DEF Operations

\* A step of the engines alone.
LEMMA RemoteKeeps ==
  ASSUME AdapterInv, Moves, strays' \subseteq strays,
         UNCHANGED <<calls, known, submissions>>
  PROVE  AdapterInv'
<1>1. AdapterTypeOK' BY DEF AdapterInv, AdapterTypeOK, Moves
<1> QED BY <1>1, OthersStay DEF AdapterInv

LEMMA AdvanceKeeps ==
  ASSUME AdapterInv, NEW e \in Instances, NEW i \in Identifiers, Advance(e, i)
  PROVE  AdapterInv'
<1>1. PICK s \in Onward(native[e][i]) : native' = [native EXCEPT ![e][i] = s]
  <2>1. \/ native[e][i] = "queued" /\ "generating" \in Onward(native[e][i])
        \/ native[e][i] = "generating" /\ {"completed", "failed"} \subseteq Onward(native[e][i])
        \/ native[e][i] \in Ended /\ "gone" \in Onward(native[e][i])
    BY DEF Advance, Onward, NativeStatus, Unfinished, Ended
  <2> QED BY <2>1 DEF Advance, Ended
<1>2. Moves BY <1>1, OneMoves DEF AdapterInv
<1> QED BY <1>2, RemoteKeeps DEF Advance

LEMMA RestartKeeps ==
  ASSUME AdapterInv, NEW e \in Instances, RestartEngine(e)
  PROVE  AdapterInv'
<1>1. \A s \in NativeStatus : "gone" \in Onward(s)
  BY DEF Onward, NativeStatus, Unfinished, Ended
<1>2. "gone" \in NativeStatus /\ "absent" \in NativeStatus BY DEF NativeStatus
<1>3. Moves
  BY <1>1, <1>2, OnwardFacts DEF AdapterInv, AdapterTypeOK, RestartEngine, Moves
<1> QED BY <1>3, RemoteKeeps DEF RestartEngine

LEMMA TakeStrayKeeps ==
  ASSUME AdapterInv, NEW r \in strays, TakeStray(r)
  PROVE  AdapterInv'
<1>1. Sensible(r.engine, r.op, r.id)
  BY DEF AdapterInv, GoodStray, Sensible, Operations
<1>2. PICK reply \in Replies(r.engine, r.op, r.id) : Applied(r.engine, reply)
  BY DEF TakeStray
<1>3. Moves BY <1>1, <1>2, Answers DEF AdapterInv
<1> QED BY <1>3, RemoteKeeps DEF TakeStray

-----------------------------------------------------------------------------
(* The adapter.                                                            *)

\* A step that rewrites one call to a good one, and adds good strays and known
\* identifiers at most.
LEMMA OneCall ==
  ASSUME AdapterInv, Moves, NEW c \in Callers, NEW call \in CallRecord,
         calls' = [calls EXCEPT ![c] = call], GoodCall(call)',
         known' \in [Instances -> SUBSET Identifiers],
         \A e \in Instances : \A i \in known'[e] \ known[e] : Exists(e, i)',
         \A r \in strays' \ strays : GoodStray(r)',
         submissions' \in Nat
  PROVE  AdapterInv'
<1>1. AdapterTypeOK' BY DEF AdapterInv, AdapterTypeOK, Moves
<1>2. \A d \in Callers : GoodCall(calls[d])'
  <2> TAKE d \in Callers
  <2>1. CASE d = c BY <2>1 DEF AdapterInv, AdapterTypeOK
  <2>2. CASE d # c
    <3>1. calls'[d] = calls[d] BY <2>2 DEF AdapterInv, AdapterTypeOK
    <3> QED BY <3>1, OthersStay
  <2> QED BY <2>1, <2>2
<1>3. \A r \in strays' : GoodStray(r)' BY OthersStay
<1>4. \A e \in Instances : \A i \in known'[e] : Exists(e, i)' BY OthersStay
<1> QED BY <1>1, <1>2, <1>3, <1>4 DEF AdapterInv

LEMMA NoCallIsGood == NoCall \in CallRecord /\ GoodCall(NoCall)
BY DEF NoCall, CallRecord, Operations, Outcomes, NativeStatus, GoodCall, Outstanding

LEMMA CallKeeps ==
  ASSUME AdapterInv, NEW c \in Callers, NEW e \in Instances,
         NEW op \in Operations, NEW id \in Identifiers \cup {0}, Call(c, e, op, id)
  PROVE  AdapterInv'
<1>1. submissions' \in Nat BY DEF Call, AdapterInv, AdapterTypeOK
<1>a. PICK call :
        call = [NoCall EXCEPT
                  !.pc = IF e \in Registered THEN "sent" ELSE "done",
                  !.outcome = IF e \in Registered THEN "none" ELSE "protocol",
                  !.engine = e, !.op = op, !.id = id,
                  !.number = IF op = "submit" THEN submissions' ELSE 0]
  OBVIOUS
<1>2. Moves BY StandingStill DEF Call, AdapterInv
<1>3. /\ call \in CallRecord
      /\ call.pc \in {"sent", "done"} /\ call.outcome \in {"none", "protocol"}
      /\ call.engine = e /\ call.op = op /\ call.id = id
  BY <1>1, <1>a DEF NoCall, CallRecord, Operations, Outcomes, NativeStatus
<1>4. op \in {"poll", "cancel"} => Exists(e, id) BY DEF Call, AdapterInv
<1>5. calls' = [calls EXCEPT ![c] = call] BY <1>a DEF Call
<1>6. GoodCall(call)'
  <2>1. EvidencedBy(call.outcome, native'[call.engine][call.id])
    BY <1>3 DEF EvidencedBy
  <2>2. (Exists(e, id) => Exists(e, id)') BY DEF Call, Exists
  <2> QED BY <1>3, <1>4, <2>1, <2>2 DEF GoodCall, Outstanding, AboutJob
<1> QED BY <1>1, <1>2, <1>3, <1>5, <1>6, OneCall DEF Call, AdapterInv, AdapterTypeOK

LEMMA TakeKeeps ==
  ASSUME AdapterInv, NEW c \in Callers, Take(c)
  PROVE  AdapterInv'
<1>b. PICK old : old = calls[c] OBVIOUS
<1>1. old \in CallRecord /\ old.pc = "sent" /\ GoodCall(old)
  BY <1>b DEF Take, AdapterInv, AdapterTypeOK
<1>2. Sensible(old.engine, old.op, old.id)
  BY <1>1 DEF CallRecord, GoodCall, Sensible, AboutJob
<1>3. PICK reply \in Replies(old.engine, old.op, old.id) :
        /\ Applied(old.engine, reply)
        /\ calls' = [calls EXCEPT ![c].pc = "taken", ![c].id = reply.id,
                                  ![c].code = reply.code,
                                  ![c].status = reply.status, ![c].number = 0]
  BY <1>b DEF Take
<1>a. PICK call : call = [old EXCEPT !.pc = "taken", !.id = reply.id,
                                     !.code = reply.code,
                                     !.status = reply.status, !.number = 0]
  OBVIOUS
<1>4. /\ Moves
      /\ reply.code \in Nat /\ reply.id \in Identifiers \cup {0}
      /\ reply.status \in NativeStatus
      /\ old.op \in {"poll", "cancel"} =>
           /\ reply.id = old.id /\ native'[old.engine][old.id] = reply.status
           /\ reply.code \in {404, 410} => reply.status = "gone"
      /\ old.op = "submit" /\ reply.code = 202 => Exists(old.engine, reply.id)'
  <2> DEFINE e == old.engine
             op == old.op
             id == old.id
  <2>1. Sensible(e, op, id) /\ reply \in Replies(e, op, id) /\ Applied(e, reply)
    BY <1>2, <1>3
  <2>2. AdapterTypeOK BY DEF AdapterInv
  <2> HIDE DEF e, op, id
  <2>3. /\ Moves
        /\ reply.code \in Nat /\ reply.id \in Identifiers \cup {0}
        /\ reply.status \in NativeStatus
        /\ op \in {"poll", "cancel"} =>
             /\ reply.id = id /\ native'[e][id] = reply.status
             /\ reply.code \in {404, 410} => reply.status = "gone"
        /\ op = "submit" /\ reply.code = 202 => Exists(e, reply.id)'
    BY <2>1, <2>2, Answers
  <2> QED BY <2>3 DEF e, op, id
<1>5. /\ call \in CallRecord
      /\ call.pc = "taken" /\ call.engine = old.engine /\ call.op = old.op
      /\ call.id = reply.id /\ call.code = reply.code /\ call.status = reply.status
  BY <1>1, <1>4, <1>a DEF CallRecord
<1>6. calls' = [calls EXCEPT ![c] = call]
  BY <1>3, <1>a, <1>b DEF AdapterInv, AdapterTypeOK
<1>7. AboutJob(old) => Exists(old.engine, old.id)'
  <2>1. AboutJob(old) => Exists(old.engine, old.id) BY <1>1 DEF GoodCall
  <2>2. Exists(old.engine, old.id) => Exists(old.engine, old.id)'
    BY <1>4, ExistsStays DEF AdapterInv
  <2> QED BY <2>1, <2>2
<1>8. reply.status \in Onward(reply.status) BY <1>4, OnwardFacts
<1>9. old.engine \in Instances BY <1>2 DEF Sensible
<1>10. GoodCall(call)'
  BY <1>4, <1>5, <1>7, <1>8, <1>9 DEF GoodCall, Outstanding, AboutJob
<1> QED BY <1>4, <1>5, <1>6, <1>10, OneCall DEF Take, AdapterInv, AdapterTypeOK

\* A call that ends with an outcome the state of its job bears out.
LEMMA FinishKeeps ==
  ASSUME AdapterInv, NEW c \in Callers, NEW outcome \in Outcomes,
         Finishes(c, outcome), UNCHANGED <<native, submissions>>,
         calls[c].pc # "idle",
         AboutJob(calls[c]) =>
           EvidencedBy(outcome, native[calls[c].engine][calls[c].id]),
         calls[c].op = "submit" /\ outcome = "submitted" =>
           Exists(calls[c].engine, calls[c].id),
         \A r \in strays' \ strays : GoodStray(r)
  PROVE  AdapterInv'
<1>a. PICK old, call :
        /\ old = calls[c]
        /\ call = [NoCall EXCEPT !.pc = "done", !.engine = old.engine,
                                 !.op = old.op, !.id = old.id, !.outcome = outcome]
  OBVIOUS
<1>1. old \in CallRecord /\ GoodCall(old) BY <1>a DEF AdapterInv, AdapterTypeOK
<1>2. Moves BY StandingStill DEF AdapterInv
<1>3. /\ call \in CallRecord /\ call.pc = "done" /\ call.outcome = outcome
      /\ call.engine = old.engine /\ call.op = old.op /\ call.id = old.id
  BY <1>1, <1>a, NoCallIsGood DEF CallRecord, NoCall
<1>4. calls' = [calls EXCEPT ![c] = call] BY <1>a DEF Finishes
<1>5. \A e, i : Exists(e, i)' <=> Exists(e, i) BY DEF Exists
<1>6. GoodCall(call)'
  BY <1>1, <1>3, <1>5, <1>a DEF GoodCall, Outstanding, AboutJob
<1>7. /\ known' \in [Instances -> SUBSET Identifiers]
      /\ \A e \in Instances : \A i \in known'[e] \ known[e] : Exists(e, i)'
  <2>1. CASE old.op = "submit" /\ outcome = "submitted"
    <3>1. old.engine \in Instances /\ old.id \in Identifiers BY <1>a, <2>1 DEF Exists
    <3>2. known' = [known EXCEPT ![old.engine] = @ \cup {old.id}]
      BY <1>a, <2>1 DEF Finishes
    <3> QED BY <1>a, <2>1, <3>1, <3>2, <1>5 DEF AdapterInv, AdapterTypeOK
  <2>2. CASE ~(old.op = "submit" /\ outcome = "submitted")
    <3>1. known' = known BY <1>a, <2>2 DEF Finishes
    <3> QED BY <3>1 DEF AdapterInv, AdapterTypeOK
  <2> QED BY <2>1, <2>2
<1>8. \A r \in strays' \ strays : GoodStray(r)' BY <1>5 DEF GoodStray
<1>9. submissions' \in Nat BY DEF AdapterInv, AdapterTypeOK
<1> QED BY <1>2, <1>3, <1>4, <1>6, <1>7, <1>8, <1>9, OneCall

LEMMA NoAnswerKeeps ==
  ASSUME AdapterInv, NEW c \in Callers, NoAnswer(c)
  PROVE  AdapterInv'
<1>1. GoodCall(calls[c]) /\ calls[c].pc # "idle" BY DEF AdapterInv, NoAnswer
<1>2. \A r \in strays' \ strays : GoodStray(r)
  BY <1>1 DEF NoAnswer, GoodStray, GoodCall, AboutJob
<1>3. "unavailable" \in Outcomes /\ \A now : EvidencedBy("unavailable", now)
  BY DEF Outcomes, EvidencedBy
<1> QED BY <1>1, <1>2, <1>3, FinishKeeps DEF NoAnswer

LEMMA HeadArrivesKeeps ==
  ASSUME AdapterInv, NEW c \in Callers, HeadArrives(c)
  PROVE  AdapterInv'
<1> DEFINE old  == calls[c]
           next == Classified(old.op, old.code)
<1>1. old \in CallRecord /\ old.pc = "taken" /\ GoodCall(old)
  BY DEF AdapterInv, AdapterTypeOK, HeadArrives
<1>2. /\ next \in {"decode", "busy", "notFound", "text"}
      /\ next = "decode" => old.code = ExpectedStatus(old.op)
      /\ next = "notFound" => old.code \in {404, 410}
  BY DEF Classified
<1>3. CASE next \in {"decode", "text"}
  <2>a. PICK call : call = [old EXCEPT !.pc = next] OBVIOUS
  <2>1. calls' = [calls EXCEPT ![c] = call]
    BY <1>3, <2>a DEF HeadArrives, AdapterInv, AdapterTypeOK
  <2>2. /\ call \in CallRecord /\ call.pc = next /\ call.engine = old.engine
        /\ call.op = old.op /\ call.id = old.id /\ call.code = old.code
        /\ call.status = old.status
    BY <1>1, <1>3, <2>a DEF CallRecord
  <2> HIDE DEF next
  <2>3. GoodCall(call)
    BY <1>1, <1>2, <1>3, <2>2 DEF GoodCall, Outstanding, AboutJob
  <2>4. GoodCall(call)' BY <2>3 DEF GoodCall, Exists, HeadArrives
  <2>5. Moves BY StandingStill DEF HeadArrives, AdapterInv
  <2>6. UNCHANGED <<strays, known, submissions>> BY <1>3 DEF HeadArrives, next
  <2> QED BY <2>1, <2>2, <2>4, <2>5, <2>6, OneCall DEF AdapterInv, AdapterTypeOK
<1>4. CASE next \in {"busy", "notFound"}
  <2>1. Finishes(c, next) BY <1>4 DEF HeadArrives
  <2>2. next \in Outcomes BY <1>4 DEF Outcomes
  <2>3. AboutJob(old) => EvidencedBy(next, native[old.engine][old.id])
    <3>1. CASE next = "busy" BY <3>1 DEF EvidencedBy
    <3>2. CASE next = "notFound"
      <4>1. ASSUME AboutJob(old) PROVE native[old.engine][old.id] = "gone"
        BY <1>1, <1>2, <3>2, <4>1 DEF GoodCall, Outstanding, Onward
      <4> QED BY <4>1, <3>2 DEF EvidencedBy
    <3> QED BY <1>4, <3>1, <3>2
  <2> HIDE DEF next
  <2> QED BY <1>1, <1>4, <2>1, <2>2, <2>3, FinishKeeps DEF HeadArrives
<1> QED BY <1>2, <1>3, <1>4

LEMMA BodyEndsKeeps ==
  ASSUME AdapterInv, NEW c \in Callers, BodyEnds(c)
  PROVE  AdapterInv'
<1> DEFINE old == calls[c]
<1>1. old \in CallRecord /\ GoodCall(old) /\ old.pc \in {"decode", "text"}
  BY DEF AdapterInv, AdapterTypeOK, BodyEnds
<1>2. /\ {"protocol", "rejected"} \subseteq Outcomes
      /\ \A now : EvidencedBy("protocol", now) /\ EvidencedBy("rejected", now)
  BY DEF Outcomes, EvidencedBy
<1>3. CASE Finishes(c, "protocol") \/ Finishes(c, "rejected")
  BY <1>1, <1>2, <1>3, FinishKeeps DEF BodyEnds
<1>4. CASE old.pc = "decode" /\ Finishes(c, Decoded(old))
  <2> DEFINE outcome == Decoded(old)
  <2>1. outcome \in Outcomes
    BY <1>1 DEF CallRecord, Decoded, ToEngineJobStatus, Outcomes, NativeStatus
  <2>2. AboutJob(old) => EvidencedBy(outcome, native[old.engine][old.id])
    <3> SUFFICES ASSUME AboutJob(old)
                 PROVE  EvidencedBy(outcome, native[old.engine][old.id])
      OBVIOUS
    <3>1. outcome = ToEngineJobStatus(old.status) BY DEF AboutJob, Decoded
    <3>2. old.status \in NativeStatus BY <1>1 DEF CallRecord
    <3>3. native[old.engine][old.id] \in Onward(old.status)
      BY <1>1 DEF GoodCall, Outstanding
    <3> QED BY <3>1, <3>2, <3>3, StatusIsEvidence
  <2>3. old.op = "submit" => Exists(old.engine, old.id)
    BY <1>1, <1>4 DEF GoodCall, Outstanding, ExpectedStatus
  <2> HIDE DEF outcome
  <2>4. Finishes(c, outcome) BY <1>4 DEF outcome
  <2> QED BY <1>1, <2>1, <2>2, <2>3, <2>4, FinishKeeps DEF BodyEnds
<1> QED BY <1>3, <1>4 DEF BodyEnds

LEMMA ReturnKeeps ==
  ASSUME AdapterInv, NEW c \in Callers, Return(c)
  PROVE  AdapterInv'
<1>1. Moves BY StandingStill DEF Return, AdapterInv
<1>2. GoodCall(NoCall)' BY NoCallIsGood DEF NoCall, GoodCall, Outstanding
<1> QED BY <1>1, <1>2, NoCallIsGood, OneCall DEF Return, AdapterInv, AdapterTypeOK

-----------------------------------------------------------------------------
LEMMA AdapterInit == Init => AdapterInv
<1> SUFFICES ASSUME Init PROVE AdapterInv OBVIOUS
<1>1. AdapterTypeOK
  BY NoCallIsGood DEF Init, AdapterTypeOK, NativeStatus
<1>2. \A c \in Callers : GoodCall(calls[c]) BY NoCallIsGood DEF Init
<1> QED BY <1>1, <1>2 DEF AdapterInv, Init

LEMMA AdapterStep == AdapterInv /\ [Next]_adapterVars => AdapterInv'
<1> SUFFICES ASSUME AdapterInv, [Next]_adapterVars PROVE AdapterInv' OBVIOUS
<1>1. CASE Remote
  BY <1>1, TakeKeeps, TakeStrayKeeps, RestartKeeps, AdvanceKeeps DEF Remote
<1>2. ASSUME NEW c \in Callers, Adapter(c) PROVE AdapterInv'
  BY <1>2, CallKeeps, NoAnswerKeeps, HeadArrivesKeeps, BodyEndsKeeps, ReturnKeeps
  DEF Adapter
<1>3. CASE UNCHANGED adapterVars
  <2>1. Moves BY <1>3, StandingStill DEF adapterVars, AdapterInv
  <2> QED BY <1>3, <2>1, RemoteKeeps DEF adapterVars
<1> QED BY <1>1, <1>2, <1>3 DEF Next

LEMMA InvHasEvidence == AdapterInv => AnswersAreEvidence
<1> SUFFICES ASSUME AdapterInv, NEW c \in Callers, calls[c].pc = "done",
                    calls[c].op \in {"poll", "cancel"}
             PROVE  EvidencedBy(calls[c].outcome, native[calls[c].engine][calls[c].id])
  BY DEF AnswersAreEvidence, EvidencedBy
<1> QED BY DEF AdapterInv, GoodCall, AboutJob

\* For any number of fibers, engines and identifiers, whatever is lost, late or
\* restarted: what a poll or a cancellation told a worker is still so when the
\* worker acts on it.
THEOREM AnswersStayTrue == Spec => []AnswersAreEvidence
BY AdapterInit, AdapterStep, InvHasEvidence, PTL DEF Spec

-----------------------------------------------------------------------------
(* Work that nobody knows of, counted.                                     *)

Created(e) == {i \in Identifiers : native[e][i] # "absent"}

\* A submission whose answer is on the way.
Answering(e, call) ==
  call.pc \in {"taken", "decode"} /\ call.op = "submit" /\ call.engine = e

AnsweredIds(e) == {calls[c].id : c \in {d \in Callers : Answering(e, calls[d])}}

Unseen(e) == Created(e) \ (known[e] \cup AnsweredIds(e))

\* Submissions that may still arrive, and create another.
Pending(e) == {r \in strays : r.op = "submit" /\ r.engine = e}

\* The invariant: jobs that nobody knows of, and submissions that may still
\* create one, are paid for by submissions that ended in doubt.
Explained(e) ==
  /\ IsFiniteSet(Unseen(e)) /\ IsFiniteSet(Pending(e))
  /\ unsure[e] \in Nat
  /\ Cardinality(Unseen(e)) + Cardinality(Pending(e)) <= unsure[e]

\* A submission that the engine refused names no job.
Refused(call) ==
  call.pc = "taken" /\ call.op = "submit" /\ call.code # 202 => call.id = 0

CountInv ==
  /\ AdapterInv
  /\ unsure \in [Instances -> Nat]
  /\ \A c \in Callers : Refused(calls[c])
  /\ \A e \in Instances : Explained(e)

LEMMA NoMore ==
  ASSUME NEW S, IsFiniteSet(S), NEW T, T \subseteq S
  PROVE  /\ IsFiniteSet(T) /\ Cardinality(T) \in Nat /\ Cardinality(S) \in Nat
         /\ Cardinality(T) <= Cardinality(S)
BY FS_Subset, FS_CardinalityType

LEMMA OneMore ==
  ASSUME NEW S, IsFiniteSet(S), NEW x, NEW T, T \subseteq S \cup {x}
  PROVE  /\ IsFiniteSet(T) /\ Cardinality(T) \in Nat /\ Cardinality(S) \in Nat
         /\ Cardinality(T) <= Cardinality(S) + 1
<1>1. /\ IsFiniteSet(S \cup {x})
      /\ Cardinality(S \cup {x}) = Cardinality(S)
           \/ Cardinality(S \cup {x}) = Cardinality(S) + 1
  BY FS_AddElement
<1>2. Cardinality(S) \in Nat BY FS_CardinalityType
<1>3. /\ IsFiniteSet(T) /\ Cardinality(T) \in Nat
      /\ Cardinality(T) <= Cardinality(S \cup {x})
  BY <1>1, NoMore
<1> QED BY <1>1, <1>2, <1>3

LEMMA OneLess ==
  ASSUME NEW S, IsFiniteSet(S), NEW x \in S, NEW T, T \subseteq S \ {x}
  PROVE  /\ IsFiniteSet(T) /\ Cardinality(T) \in Nat /\ Cardinality(S) \in Nat
         /\ Cardinality(T) <= Cardinality(S) - 1
<1>1. /\ IsFiniteSet(S \ {x})
      /\ Cardinality(S \ {x}) = Cardinality(S) - 1
  BY FS_RemoveElement
<1>2. Cardinality(S) \in Nat BY FS_CardinalityType
<1>3. /\ IsFiniteSet(T) /\ Cardinality(T) \in Nat
      /\ Cardinality(T) <= Cardinality(S \ {x})
  BY <1>1, NoMore
<1> QED BY <1>1, <1>2, <1>3

\* The four ways in which a step may touch the account of an engine.
LEMMA NothingNew ==
  ASSUME NEW e \in Instances, Explained(e), unsure'[e] \in Nat,
         Unseen(e)' \subseteq Unseen(e), Pending(e)' \subseteq Pending(e),
         unsure'[e] >= unsure[e]
  PROVE  Explained(e)'
<1>1. /\ IsFiniteSet(Unseen(e)') /\ Cardinality(Unseen(e)') \in Nat
      /\ Cardinality(Unseen(e)) \in Nat
      /\ Cardinality(Unseen(e)') <= Cardinality(Unseen(e))
  BY NoMore DEF Explained
<1>2. /\ IsFiniteSet(Pending(e)') /\ Cardinality(Pending(e)') \in Nat
      /\ Cardinality(Pending(e)) \in Nat
      /\ Cardinality(Pending(e)') <= Cardinality(Pending(e))
  BY NoMore DEF Explained
<1> QED BY <1>1, <1>2 DEF Explained

LEMMA UnseenAndPaid ==
  ASSUME NEW e \in Instances, Explained(e), unsure'[e] \in Nat, NEW x,
         Unseen(e)' \subseteq Unseen(e) \cup {x}, Pending(e)' \subseteq Pending(e),
         unsure'[e] = unsure[e] + 1
  PROVE  Explained(e)'
<1>1. /\ IsFiniteSet(Unseen(e)') /\ Cardinality(Unseen(e)') \in Nat
      /\ Cardinality(Unseen(e)) \in Nat
      /\ Cardinality(Unseen(e)') <= Cardinality(Unseen(e)) + 1
  BY OneMore DEF Explained
<1>2. /\ IsFiniteSet(Pending(e)') /\ Cardinality(Pending(e)') \in Nat
      /\ Cardinality(Pending(e)) \in Nat
      /\ Cardinality(Pending(e)') <= Cardinality(Pending(e))
  BY NoMore DEF Explained
<1> QED BY <1>1, <1>2 DEF Explained

LEMMA PendingAndPaid ==
  ASSUME NEW e \in Instances, Explained(e), unsure'[e] \in Nat, NEW x,
         Unseen(e)' \subseteq Unseen(e), Pending(e)' \subseteq Pending(e) \cup {x},
         unsure'[e] = unsure[e] + 1
  PROVE  Explained(e)'
<1>1. /\ IsFiniteSet(Unseen(e)') /\ Cardinality(Unseen(e)') \in Nat
      /\ Cardinality(Unseen(e)) \in Nat
      /\ Cardinality(Unseen(e)') <= Cardinality(Unseen(e))
  BY NoMore DEF Explained
<1>2. /\ IsFiniteSet(Pending(e)') /\ Cardinality(Pending(e)') \in Nat
      /\ Cardinality(Pending(e)) \in Nat
      /\ Cardinality(Pending(e)') <= Cardinality(Pending(e)) + 1
  BY OneMore DEF Explained
<1> QED BY <1>1, <1>2 DEF Explained

LEMMA PendingArrives ==
  ASSUME NEW e \in Instances, Explained(e), unsure'[e] \in Nat, NEW x,
         NEW r \in Pending(e),
         Unseen(e)' \subseteq Unseen(e) \cup {x},
         Pending(e)' \subseteq Pending(e) \ {r}, unsure'[e] = unsure[e]
  PROVE  Explained(e)'
<1>1. /\ IsFiniteSet(Unseen(e)') /\ Cardinality(Unseen(e)') \in Nat
      /\ Cardinality(Unseen(e)) \in Nat
      /\ Cardinality(Unseen(e)') <= Cardinality(Unseen(e)) + 1
  BY OneMore DEF Explained
<1>2. /\ IsFiniteSet(Pending(e)') /\ Cardinality(Pending(e)') \in Nat
      /\ Cardinality(Pending(e)) \in Nat
      /\ Cardinality(Pending(e)') <= Cardinality(Pending(e)) - 1
  BY OneLess DEF Explained
<1> QED BY <1>1, <1>2 DEF Explained

\* Rewriting one call takes at most the identifier it waited for out of those
\* on their way, and none if it waited for none.
LEMMA OneCallAnswering ==
  ASSUME NEW c \in Callers, AdapterTypeOK, NEW e,
         \A d \in Callers : d # c => calls'[d] = calls[d]
  PROVE  /\ AnsweredIds(e) \subseteq AnsweredIds(e)' \cup {calls[c].id}
         /\ ~Answering(e, calls[c]) => AnsweredIds(e) \subseteq AnsweredIds(e)'
BY DEF AnsweredIds, Answering

\* An engine creates a job for a submission only, and at most one.
LEMMA CreatedByReply ==
  ASSUME AdapterTypeOK, NEW e, NEW op, NEW id, Sensible(e, op, id),
         NEW reply \in Replies(e, op, id), Applied(e, reply), NEW d \in Instances
  PROVE  /\ Created(d)' \subseteq Created(d) \cup {reply.id}
         /\ d # e \/ op # "submit" => Created(d)' \subseteq Created(d)
<1>1. e \in Instances /\ reply.id \in Identifiers \cup {0}
  BY Answers DEF Sensible
<1>2. CASE reply.id = 0
  <2>1. native' = native BY <1>2 DEF Applied
  <2> QED BY <2>1 DEF Created
<1>3. CASE reply.id \in Identifiers /\ reply.id # 0
  <2>1. native' = [native EXCEPT ![e][reply.id] = reply.status]
    BY <1>3 DEF Applied
  <2>2. \A i \in Identifiers :
          d # e \/ i # reply.id => native'[d][i] = native[d][i]
    BY <2>1, <1>1 DEF AdapterTypeOK
  <2>3. ASSUME op # "submit", d = e PROVE native[d][reply.id] # "absent"
    <3>1. op # "capabilities" BY <1>3, CapabilityReplies
    <3>2. op \in {"poll", "cancel"} BY <2>3, <3>1 DEF Sensible, Operations
    <3>3. reply.id = id BY <3>2, Answers
    <3> QED BY <2>3, <3>2, <3>3 DEF Sensible, Exists
  <2> QED BY <2>2, <2>3 DEF Created
<1> QED BY <1>1, <1>2, <1>3

LEMMA AdvanceExplained ==
  ASSUME CountInv, NEW e \in Instances, NEW i \in Identifiers, Advance(e, i)
  PROVE  CountInv'
<1>1. AdapterInv' BY AdvanceKeeps DEF CountInv
<1>2. \A d \in Instances : Created(d)' \subseteq Created(d)
  <2>1. \A d \in Instances, k \in Identifiers :
          native'[d][k] = native[d][k] \/ native[d][k] # "absent"
    BY DEF Advance, CountInv, AdapterInv, AdapterTypeOK, Ended
  <2> QED BY <2>1 DEF Created
<1>3. \A d \in Instances : Unseen(d)' \subseteq Unseen(d) /\ Pending(d)' \subseteq Pending(d)
  BY <1>2 DEF Advance, Unseen, AnsweredIds, Answering, Pending
<1>4. ASSUME NEW d \in Instances PROVE Explained(d)'
  <2>1. unsure'[d] = unsure[d] /\ unsure[d] \in Nat BY DEF Advance, CountInv
  <2> QED BY <1>3, <2>1, NothingNew DEF CountInv
<1> QED BY <1>1, <1>4 DEF CountInv, Advance, Refused

LEMMA RestartExplained ==
  ASSUME CountInv, NEW e \in Instances, RestartEngine(e)
  PROVE  CountInv'
<1>1. AdapterInv' BY RestartKeeps DEF CountInv
<1>2. \A d \in Instances : Created(d)' \subseteq Created(d)
  <2>1. \A d \in Instances, k \in Identifiers :
          native'[d][k] = native[d][k] \/ native[d][k] # "absent"
    BY DEF RestartEngine, CountInv, AdapterInv, AdapterTypeOK
  <2> QED BY <2>1 DEF Created
<1>3. \A d \in Instances : Unseen(d)' \subseteq Unseen(d) /\ Pending(d)' \subseteq Pending(d)
  BY <1>2 DEF RestartEngine, Unseen, AnsweredIds, Answering, Pending
<1>4. ASSUME NEW d \in Instances PROVE Explained(d)'
  <2>1. unsure'[d] = unsure[d] /\ unsure[d] \in Nat BY DEF RestartEngine, CountInv
  <2> QED BY <1>3, <2>1, NothingNew DEF CountInv
<1> QED BY <1>1, <1>4 DEF CountInv, RestartEngine, Refused

LEMMA TakeStrayExplained ==
  ASSUME CountInv, NEW r \in strays, TakeStray(r)
  PROVE  CountInv'
<1>1. AdapterInv' BY TakeStrayKeeps DEF CountInv
<1>2. Sensible(r.engine, r.op, r.id) /\ AdapterTypeOK
  BY DEF CountInv, AdapterInv, GoodStray, Sensible, Operations
<1>3. PICK reply \in Replies(r.engine, r.op, r.id) : Applied(r.engine, reply)
  BY DEF TakeStray
<1>4. ASSUME NEW d \in Instances PROVE Explained(d)'
  <2>1. /\ Created(d)' \subseteq Created(d) \cup {reply.id}
        /\ d # r.engine \/ r.op # "submit" => Created(d)' \subseteq Created(d)
    BY <1>2, <1>3, CreatedByReply
  <2>2. unsure'[d] = unsure[d] /\ unsure[d] \in Nat /\ Explained(d)
    BY DEF TakeStray, CountInv
  <2>3. Pending(d)' \subseteq Pending(d) \ {r} BY DEF TakeStray, Pending
  <2>4. Unseen(d)' \subseteq Unseen(d) \cup {reply.id}
    BY <2>1 DEF TakeStray, Unseen, AnsweredIds, Answering
  <2>5. d # r.engine \/ r.op # "submit" => Unseen(d)' \subseteq Unseen(d)
    BY <2>1 DEF TakeStray, Unseen, AnsweredIds, Answering
  <2>6. CASE d # r.engine \/ r.op # "submit"
    <3>1. Pending(d)' \subseteq Pending(d) BY <2>3
    <3>2. unsure'[d] >= unsure[d] BY <2>2
    <3> QED BY <2>2, <2>5, <2>6, <3>1, <3>2, NothingNew
  <2>7. CASE d = r.engine /\ r.op = "submit"
    <3>1. r \in Pending(d) BY <2>7 DEF Pending
    <3> QED BY <2>2, <2>3, <2>4, <3>1, PendingArrives
  <2> QED BY <2>6, <2>7
<1> QED BY <1>1, <1>4 DEF CountInv, TakeStray, Refused

LEMMA TakeExplained ==
  ASSUME CountInv, NEW c \in Callers, Take(c)
  PROVE  CountInv'
<1>1. AdapterInv' BY TakeKeeps DEF CountInv
<1>b. PICK old : old = calls[c] OBVIOUS
<1>2. old \in CallRecord /\ old.pc = "sent" /\ GoodCall(old) /\ AdapterTypeOK
  BY <1>b DEF Take, CountInv, AdapterInv, AdapterTypeOK
<1>3. Sensible(old.engine, old.op, old.id)
  BY <1>2 DEF CallRecord, GoodCall, Sensible, AboutJob
<1>4. PICK reply \in Replies(old.engine, old.op, old.id) :
        /\ Applied(old.engine, reply)
        /\ calls' = [calls EXCEPT ![c].pc = "taken", ![c].id = reply.id,
                                  ![c].code = reply.code,
                                  ![c].status = reply.status, ![c].number = 0]
  BY <1>b DEF Take
<1>5. /\ calls'[c].pc = "taken" /\ calls'[c].op = old.op
      /\ calls'[c].engine = old.engine /\ calls'[c].id = reply.id
      /\ calls'[c].code = reply.code
      /\ \A d \in Callers : d # c => calls'[d] = calls[d]
  BY <1>b, <1>2, <1>4 DEF AdapterTypeOK, CallRecord
<1>6. ASSUME NEW d \in Instances PROVE Explained(d)'
  <2>1. /\ Created(d)' \subseteq Created(d) \cup {reply.id}
        /\ d # old.engine \/ old.op # "submit" => Created(d)' \subseteq Created(d)
    BY <1>2, <1>3, <1>4, CreatedByReply
  <2>2. AnsweredIds(d) \subseteq AnsweredIds(d)'
    BY <1>2, <1>5, <1>b, OneCallAnswering DEF Answering
  <2>3. d = old.engine /\ old.op = "submit" => reply.id \in AnsweredIds(d)'
    BY <1>5 DEF AnsweredIds, Answering
  <2>4. Unseen(d)' \subseteq Unseen(d) BY <2>1, <2>2, <2>3 DEF Take, Unseen
  <2>5. Pending(d)' \subseteq Pending(d) BY DEF Take, Pending
  <2>6. unsure'[d] >= unsure[d] /\ unsure'[d] \in Nat BY DEF Take, CountInv
  <2> QED BY <2>4, <2>5, <2>6, NothingNew DEF CountInv
<1>7. \A d \in Callers : Refused(calls[d])'
  <2>1. Refused(calls[c])'
    <3>1. ASSUME old.op = "submit", reply.code # 202 PROVE reply.id = 0
      BY <1>3, <3>1, SubmitReplies DEF Sensible
    <3> QED BY <1>5, <3>1 DEF Refused
  <2> QED BY <1>5, <2>1 DEF CountInv, Refused
<1> QED BY <1>1, <1>6, <1>7 DEF Take, CountInv

\* Rewriting one call loses sight of at most the job it waited for.
LEMMA OneCallUnseen ==
  ASSUME CountInv, NEW c \in Callers, UNCHANGED native, NEW e \in Instances,
         \A d \in Callers : d # c => calls'[d] = calls[d],
         known[e] \subseteq known'[e]
  PROVE  /\ Unseen(e)' \subseteq Unseen(e) \cup {calls[c].id}
         /\ \/ ~Answering(e, calls[c])
            \/ calls[c].id = 0
            \/ calls[c].id \in known'[e]
            \/ Answering(e, calls[c])' /\ calls'[c].id = calls[c].id
            => Unseen(e)' \subseteq Unseen(e)
<1>1. AdapterTypeOK BY DEF CountInv, AdapterInv
<1>2. /\ AnsweredIds(e) \subseteq AnsweredIds(e)' \cup {calls[c].id}
      /\ ~Answering(e, calls[c]) => AnsweredIds(e) \subseteq AnsweredIds(e)'
  BY <1>1, OneCallAnswering
<1>3. Created(e)' = Created(e) BY DEF Created
<1>4. 0 \notin Created(e) BY AdapterAssumption DEF Created
<1>5. Answering(e, calls[c])' => calls'[c].id \in AnsweredIds(e)'
  BY DEF AnsweredIds, Answering
<1> QED BY <1>2, <1>3, <1>4, <1>5 DEF Unseen

\* A call that neither answered nor answers a submission.
LEMMA QuietCall ==
  ASSUME CountInv, AdapterInv', NEW c \in Callers, UNCHANGED <<native, known, unsure>>,
         \A d \in Callers : d # c => calls'[d] = calls[d],
         \A e \in Instances :
           \/ ~Answering(e, calls[c])
           \/ calls[c].id = 0
           \/ Answering(e, calls[c])' /\ calls'[c].id = calls[c].id,
         \A e \in Instances : Pending(e)' \subseteq Pending(e),
         Refused(calls[c])'
  PROVE  CountInv'
<1>1. ASSUME NEW e \in Instances PROVE Explained(e)'
  <2>1. Unseen(e)' \subseteq Unseen(e) BY OneCallUnseen
  <2>2. unsure'[e] >= unsure[e] /\ unsure'[e] \in Nat BY DEF CountInv
  <2> QED BY <2>1, <2>2, NothingNew DEF CountInv
<1>2. \A d \in Callers : Refused(calls[d])' BY DEF CountInv, Refused
<1> QED BY <1>1, <1>2 DEF CountInv

Doubtful(call, outcome) ==
  call.op = "submit" /\ outcome \in {"unavailable", "protocol"}

\* A call that ends: in doubt, it pays for what it may have left behind; else
\* it left nothing.
LEMMA FinishExplained ==
  ASSUME CountInv, AdapterInv', NEW c \in Callers, NEW outcome,
         Finishes(c, outcome), UNCHANGED native, calls[c].pc # "idle",
         \A e \in Instances :
           \/ Pending(e)' \subseteq Pending(e)
           \/ /\ Doubtful(calls[c], outcome) /\ calls[c].engine = e
              /\ calls[c].pc = "sent"
              /\ \E x : Pending(e)' \subseteq Pending(e) \cup {x},
         \/ Doubtful(calls[c], outcome)
         \/ \A e \in Instances : ~Answering(e, calls[c])
         \/ calls[c].id = 0
         \/ outcome = "submitted"
  PROVE  CountInv'
<1>b. PICK old : old = calls[c] OBVIOUS
<1>1. old \in CallRecord /\ old.engine \in Instances
  BY <1>b DEF CountInv, AdapterInv, AdapterTypeOK, GoodCall
<1>2. /\ calls'[c].pc = "done"
      /\ \A d \in Callers : d # c => calls'[d] = calls[d]
  BY DEF Finishes, CountInv, AdapterInv, AdapterTypeOK, NoCall
<1>3. \A e \in Instances : known[e] \subseteq known'[e]
  BY <1>b, <1>1 DEF Finishes, CountInv, AdapterInv, AdapterTypeOK
<1>4. old.op = "submit" /\ outcome = "submitted" => old.id \in known'[old.engine]
  BY <1>b, <1>1 DEF Finishes, CountInv, AdapterInv, AdapterTypeOK
<1>5. unsure' = IF Doubtful(old, outcome)
                  THEN [unsure EXCEPT ![old.engine] = @ + 1] ELSE unsure
  BY <1>b DEF Finishes, Doubtful
<1>6. unsure \in [Instances -> Nat] BY DEF CountInv
<1>7. unsure' \in [Instances -> Nat] BY <1>1, <1>5, <1>6
<1>8. ASSUME NEW e \in Instances PROVE Explained(e)'
  <2>1. /\ Unseen(e)' \subseteq Unseen(e) \cup {old.id}
        /\ \/ ~Answering(e, old)
           \/ old.id = 0
           \/ old.id \in known'[e]
           => Unseen(e)' \subseteq Unseen(e)
    BY <1>b, <1>2, <1>3, OneCallUnseen DEF Answering
  <2>2. CASE Doubtful(old, outcome) /\ old.engine = e
    <3>1. unsure'[e] = unsure[e] + 1 /\ unsure'[e] \in Nat
      BY <1>1, <1>5, <1>6, <1>7, <2>2
    <3>2. CASE Pending(e)' \subseteq Pending(e)
      BY <2>1, <3>1, <3>2, UnseenAndPaid DEF CountInv
    <3>3. CASE /\ old.pc = "sent"
               /\ \E x : Pending(e)' \subseteq Pending(e) \cup {x}
      <4>1. Unseen(e)' \subseteq Unseen(e) BY <2>1, <3>3 DEF Answering
      <4>2. PICK x : Pending(e)' \subseteq Pending(e) \cup {x} BY <3>3
      <4> QED BY <3>1, <4>1, <4>2, PendingAndPaid DEF CountInv
    <3> QED BY <1>b, <3>2, <3>3
  <2>3. CASE ~(Doubtful(old, outcome) /\ old.engine = e)
    <3>1. unsure'[e] >= unsure[e] /\ unsure'[e] \in Nat
      BY <1>1, <1>5, <1>6, <1>7, <2>3
    <3>2. Pending(e)' \subseteq Pending(e) BY <1>b, <2>3
    <3>3. Unseen(e)' \subseteq Unseen(e)
      BY <1>b, <1>4, <2>1, <2>3 DEF Answering
    <3> QED BY <3>1, <3>2, <3>3, NothingNew DEF CountInv
  <2> QED BY <2>2, <2>3
<1>9. \A d \in Callers : Refused(calls[d])' BY <1>2 DEF CountInv, Refused
<1> QED BY <1>7, <1>8, <1>9 DEF CountInv

LEMMA CallExplained ==
  ASSUME CountInv, NEW c \in Callers, NEW e \in Instances, NEW op \in Operations,
         NEW id \in Identifiers \cup {0}, Call(c, e, op, id)
  PROVE  CountInv'
<1>1. AdapterInv' BY CallKeeps DEF CountInv
<1>2. calls'[c].pc \in {"sent", "done"}
      /\ \A d \in Callers : d # c => calls'[d] = calls[d]
  BY DEF Call, CountInv, AdapterInv, AdapterTypeOK, NoCall
<1> QED BY <1>1, <1>2, QuietCall DEF Call, Answering, Pending, Refused

LEMMA NoAnswerExplained ==
  ASSUME CountInv, NEW c \in Callers, NoAnswer(c)
  PROVE  CountInv'
<1>1. AdapterInv' BY NoAnswerKeeps DEF CountInv
<1>2. ASSUME NEW e \in Instances
      PROVE  \/ Pending(e)' \subseteq Pending(e)
             \/ /\ Doubtful(calls[c], "unavailable") /\ calls[c].engine = e
                /\ calls[c].pc = "sent"
                /\ \E x : Pending(e)' \subseteq Pending(e) \cup {x}
  <2> DEFINE r == [engine |-> calls[c].engine, op |-> calls[c].op,
                   id |-> calls[c].id, number |-> calls[c].number]
  <2>1. CASE calls[c].pc = "sent" /\ calls[c].op = "submit" /\ calls[c].engine = e
    <3>1. strays' = strays \cup {r} BY <2>1 DEF NoAnswer
    <3>2. Pending(e)' \subseteq Pending(e) \cup {r} BY <3>1 DEF Pending
    <3> QED BY <2>1, <3>2 DEF Doubtful
  <2>2. CASE ~(calls[c].pc = "sent" /\ calls[c].op = "submit" /\ calls[c].engine = e)
    <3>1. strays' = strays \/ (strays' = strays \cup {r} /\ calls[c].pc = "sent")
      BY DEF NoAnswer
    <3>2. r \notin {q \in strays \cup {r} : q.op = "submit" /\ q.engine = e}
            \/ calls[c].pc # "sent"
      BY <2>2
    <3> QED BY <3>1, <3>2 DEF Pending
  <2> QED BY <2>1, <2>2
<1>3. \/ Doubtful(calls[c], "unavailable")
      \/ \A e \in Instances : ~Answering(e, calls[c])
  BY DEF Doubtful, Answering
<1>4. calls[c].pc # "idle" BY DEF NoAnswer
<1> QED BY <1>1, <1>2, <1>3, <1>4, FinishExplained DEF NoAnswer

LEMMA HeadArrivesExplained ==
  ASSUME CountInv, NEW c \in Callers, HeadArrives(c)
  PROVE  CountInv'
<1> DEFINE next == Classified(calls[c].op, calls[c].code)
<1>1. AdapterInv' BY HeadArrivesKeeps DEF CountInv
<1>2. calls[c].pc = "taken" BY DEF HeadArrives
<1>3. calls[c].op = "submit" /\ next # "decode" => calls[c].id = 0
  BY <1>2 DEF CountInv, Refused, Classified, ExpectedStatus
<1>4. \A e \in Instances : Pending(e)' \subseteq Pending(e)
  BY DEF HeadArrives, Pending
<1>5. CASE next \in {"decode", "text"}
  <2>1. calls' = [calls EXCEPT ![c].pc = next] /\ UNCHANGED <<known, unsure, native>>
    BY <1>5 DEF HeadArrives
  <2>2. /\ calls'[c].pc = next /\ calls'[c].id = calls[c].id
        /\ calls'[c].op = calls[c].op /\ calls'[c].engine = calls[c].engine
        /\ \A d \in Callers : d # c => calls'[d] = calls[d]
    BY <2>1 DEF CountInv, AdapterInv, AdapterTypeOK, CallRecord
  <2>3. Refused(calls[c])' BY <1>5, <2>2 DEF Refused
  <2> HIDE DEF next
  <2>4. \A e \in Instances :
           \/ ~Answering(e, calls[c])
           \/ calls[c].id = 0
           \/ Answering(e, calls[c])' /\ calls'[c].id = calls[c].id
    BY <1>3, <1>5, <2>2 DEF Answering
  <2> QED BY <1>1, <1>4, <2>1, <2>2, <2>3, <2>4, QuietCall
<1>6. CASE next \notin {"decode", "text"}
  <2>1. Finishes(c, next) /\ UNCHANGED native BY <1>6 DEF HeadArrives
  <2> HIDE DEF next
  <2>2. \/ \A e \in Instances : ~Answering(e, calls[c])
        \/ calls[c].id = 0
    BY <1>3, <1>6 DEF Answering
  <2> QED BY <1>1, <1>2, <1>4, <2>1, <2>2, FinishExplained
<1> QED BY <1>5, <1>6

LEMMA BodyEndsExplained ==
  ASSUME CountInv, NEW c \in Callers, BodyEnds(c)
  PROVE  CountInv'
<1>1. AdapterInv' BY BodyEndsKeeps DEF CountInv
<1>2. UNCHANGED native /\ calls[c].pc # "idle"
      /\ \A e \in Instances : Pending(e)' \subseteq Pending(e)
  BY DEF BodyEnds, Pending
<1>3. CASE Finishes(c, Decoded(calls[c]))
  <2>1. PICK outcome : outcome = Decoded(calls[c]) OBVIOUS
  <2>2. calls[c].op = "submit" => outcome = "submitted" BY <2>1 DEF Decoded
  <2>3. outcome = "submitted" \/ \A e \in Instances : ~Answering(e, calls[c])
    BY <2>2 DEF Answering
  <2> QED BY <1>1, <1>2, <1>3, <2>1, <2>3, FinishExplained
<1>4. CASE Finishes(c, "protocol")
  <2>1. \/ Doubtful(calls[c], "protocol")
        \/ \A e \in Instances : ~Answering(e, calls[c])
    BY DEF Doubtful, Answering
  <2> QED BY <1>1, <1>2, <1>4, <2>1, FinishExplained
<1>5. CASE calls[c].pc = "text" /\ Finishes(c, "rejected")
  <2>1. \A e \in Instances : ~Answering(e, calls[c]) BY <1>5 DEF Answering
  <2> QED BY <1>1, <1>2, <1>5, <2>1, FinishExplained
<1> QED BY <1>3, <1>4, <1>5 DEF BodyEnds

LEMMA ReturnExplained ==
  ASSUME CountInv, NEW c \in Callers, Return(c)
  PROVE  CountInv'
<1>1. AdapterInv' BY ReturnKeeps DEF CountInv
<1>2. calls'[c] = NoCall /\ \A d \in Callers : d # c => calls'[d] = calls[d]
  BY DEF Return, CountInv, AdapterInv, AdapterTypeOK
<1> QED BY <1>1, <1>2, QuietCall DEF Return, NoCall, Answering, Pending, Refused

LEMMA CountInit == Init => CountInv
<1> SUFFICES ASSUME Init PROVE CountInv OBVIOUS
<1>1. \A e \in Instances : Unseen(e) = {} /\ Pending(e) = {} /\ unsure[e] = 0
  BY DEF Init, Unseen, Created, Pending
<1>2. IsFiniteSet({}) /\ Cardinality({}) = 0 BY FS_EmptySet
<1>3. ASSUME NEW e \in Instances PROVE Explained(e)
  <2>1. Cardinality(Unseen(e)) = 0 /\ Cardinality(Pending(e)) = 0
    BY <1>1, <1>2
  <2>2. IsFiniteSet(Unseen(e)) /\ IsFiniteSet(Pending(e)) BY <1>1, <1>2
  <2> QED BY <1>1, <2>1, <2>2 DEF Explained
<1>4. \A c \in Callers : Refused(calls[c]) BY DEF Init, NoCall, Refused
<1>5. unsure \in [Instances -> Nat] BY DEF Init
<1> QED BY <1>3, <1>4, <1>5, AdapterInit DEF CountInv

LEMMA CountStep == CountInv /\ [Next]_adapterVars => CountInv'
<1> SUFFICES ASSUME CountInv, [Next]_adapterVars PROVE CountInv' OBVIOUS
<1>1. CASE Remote
  BY <1>1, TakeExplained, TakeStrayExplained, RestartExplained, AdvanceExplained
  DEF Remote
<1>2. ASSUME NEW c \in Callers, Adapter(c) PROVE CountInv'
  BY <1>2, CallExplained, NoAnswerExplained, HeadArrivesExplained,
     BodyEndsExplained, ReturnExplained
  DEF Adapter
<1>3. CASE UNCHANGED adapterVars
  <2>1. AdapterInv' BY <1>3, AdapterStep DEF CountInv
  <2> QED
    BY <1>3, <2>1 DEF CountInv, adapterVars, Refused, Explained, Unseen, Created,
                      AnsweredIds, Answering, Pending
<1> QED BY <1>1, <1>2, <1>3 DEF Next

\* For any number of fibers, engines and submissions: what the retry of a
\* submission can duplicate is bounded by the submissions that ended in doubt.
THEOREM UnknownWorkIsBounded == Spec => []UnknownWorkIsExplained
<1>1. CountInv => UnknownWorkIsExplained
  <2> SUFFICES ASSUME CountInv, NEW e \in Instances
               PROVE  Cardinality(Unseen(e)) <= unsure[e]
    BY DEF UnknownWorkIsExplained, Unseen, Created, AnsweredIds, Answering
  <2>1. Explained(e) BY DEF CountInv
  <2>2. Cardinality(Unseen(e)) \in Nat /\ Cardinality(Pending(e)) \in Nat
    BY <2>1, FS_CardinalityType DEF Explained
  <2> QED BY <2>1, <2>2 DEF Explained
<1> QED BY <1>1, CountInit, CountStep, PTL DEF Spec
=============================================================================
