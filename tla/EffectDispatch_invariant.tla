---------------------- MODULE EffectDispatch_invariant ----------------------
(***************************************************************************)
(* The inductive invariant of the dispatch of external effects, and what   *)
(* each step does to it, given what the authority broker upholds: every    *)
(* action keeps it, moves at most one record forward, and implements a     *)
(* step of the abstract effect.                                            *)
(***************************************************************************)
EXTENDS EffectDispatch, SequenceTheorems, TLAPS

-----------------------------------------------------------------------------
(* The inductive invariant *)

Dispatched == {"EXECUTING", "UNKNOWN", "RECONCILING"}
Unknown == {"UNKNOWN", "RECONCILING"}
Busy == job.at # "ready"

\* A sweep visits unsettled effects none of which is in work.
LoopInv ==
  /\ sweep \subseteq Unsettled(ledger)
  /\ round \notin {"starting", "sweeping"} => sweep = {}
  /\ Busy => job.o \notin sweep

\* Stamps are of the past, and a record has one.
Dated(record) ==
  /\ record.stamp <= clock
  /\ record.state # "NONE" => record.stamp \in Stamp

StampInv ==
  /\ \A o \in Objective : Dated(ledger[o]) /\ Dated(stored[o])
  /\ Busy => job.stamp <= clock
  /\ inbox # Nothing => inbox.stamp <= clock

\* The authority has committed the effect under this stamp.
Licensed(o, stamp) ==
  reservation[o].status = "COMMITTED" /\ reservation[o].digest.at = stamp

\* What is durable of an effect, in four places that no transaction spans.
EffectInv(o) ==
  /\ world[o] = IF provider[o] \in {"IDLE", "INTENT"} THEN 0 ELSE 1
  /\ stored[o].state \notin Dispatched \cup Succeeded => provider[o] = "IDLE"
  /\ stored[o].state \in Dispatched \cup Succeeded => Licensed(o, stored[o].stamp)
  /\ stored[o].state \in Succeeded => projection[o] \in Committed
  /\ stored[o].state = "REJECTED" => projection[o] = "REJECTED"
  /\ projection[o] \in Committed => provider[o] = "RECORDED"
  /\ guard[o] => GuardReady(o)
  /\ objective[o] = "SATISFIED" => GuardReady(o)

Synced(o) ==
  ledger[o].state = stored[o].state /\ ledger[o].stamp = stored[o].stamp

\* The labels between a change of the ledger and its checkpoint.
Unsaved == {"rejecting", "rejected", "uncertain", "reread", "resolve", "resolved",
            "settle"}

SyncInv ==
  \A o \in Objective :
    /\ ledger[o].stamp = stored[o].stamp
    /\ ~(job.at \in Unsaved /\ job.o = o) => Synced(o)

\* What the effects service knows at each point of a job.
JobInv ==
  LET o == job.o IN
  /\ job.at \in {"prepare", "reserve"}
       => ledger[o].state = "NONE" \/ ledger[o].stamp = job.stamp
  /\ job.at \in {"bound", "commit", "expire", "abort", "dispatch", "inspect", "status"}
       => ledger[o].state = "RESERVED" /\ ledger[o].stamp = job.stamp
  /\ job.at = "dispatch" => Licensed(o, job.stamp)
  /\ job.at \in {"chain", "execute", "observe", "lost", "observed", "classify"}
       => ledger[o].state = "EXECUTING"
  /\ job.at \in {"rejecting", "rejected"}
       => ledger[o].state = "REJECTED" /\ stored[o].state = "RESERVED"
  /\ job.at = "rejected" => projection[o] = "REJECTED"
  /\ job.at \in {"observe", "observed", "classify", "guard", "uncertain", "reread",
                 "resolve", "resolved", "settle"} => provider[o] = "RECORDED"
  /\ job.at \in {"observed", "classify", "guard", "resolved", "settle"}
       => projection[o] \in Committed
  /\ job.at = "guard" => ledger[o].state \in Succeeded
  /\ job.at = "probe" => ledger[o].state \in Unknown /\ Len(ledger[o].log.tries) < MaxTries
  /\ job.at \in {"uncertain", "reread", "resolve"}
       => ledger[o].state = "RECONCILING" /\ stored[o].state \in Unknown
          /\ Len(ledger[o].log.tries) > 0
  /\ job.at \in {"resolved", "settle"}
       => ledger[o].state = "RESOLVED" /\ stored[o].state \in Unknown
  /\ job.at = "reply" /\ job.code = "COMMITTED" => GuardReady(o)

IInv ==
  /\ TypeOK
  /\ LoopInv
  /\ StampInv
  /\ \A o \in Objective : EffectInv(o)
  /\ SyncInv
  /\ Busy => JobInv
  /\ AnswerIsDurable

-----------------------------------------------------------------------------
(* What the broker does meanwhile *)

\* Whatever the broker does, what it has committed stays, and AUTHORIZED, said
\* of a COMMIT or a STATUS, is a licence.
Upheld ==
  /\ A!TypeOK'
  /\ clock <= clock'
  /\ \A o \in Objective : \A stamp : Licensed(o, stamp) => Licensed(o, stamp)'
  /\ \A o \in Objective, stamp \in Stamp :
       /\ A!Commit(Message(o, stamp)) \/ A!Status(Message(o, stamp))
       /\ reply'.code = "AUTHORIZED"
       => Licensed(o, stamp)'

-----------------------------------------------------------------------------
(* Types *)

RecordsType ==
  /\ ledger \in [Objective -> Record] /\ stored \in [Objective -> Record]
  /\ attempts \in [Objective -> Attempts]

LoopType ==
  /\ round \in {"starting", "rewriting", "rest", "sweeping", "guarding"}
  /\ pending \subseteq Objective /\ sweep \subseteq Objective /\ owed \subseteq Objective

ClientType ==
  /\ inbox \in [o : Objective, stamp : Stamp, heard : BOOLEAN] \cup {Nothing}
  /\ runtime \in [at : {"waiting"}, o : Objective, since : Stamp]
                 \cup [at : {"resume", "deny", "tick"}, o : Objective] \cup {Idle}

WorldType ==
  /\ projection \in [Objective -> ProviderState]
  /\ objective \in [Objective -> {"PROPOSED", "SATISFIED", "CANCELLED"}]
  /\ guard \in [Objective -> BOOLEAN]
  /\ provider \in [Objective -> {"IDLE", "INTENT", "APPLIED", "RECORDED"}]
  /\ world \in [Objective -> Nat]
  /\ faults \in 0..MaxFaults

JobType == job \in Job \cup {Ready}

LEMMA TypeParts ==
  TypeOK <=> /\ A!TypeOK /\ RecordsType /\ LoopType
             /\ ClientType /\ WorldType /\ JobType
  BY DEF TypeOK, RecordsType, LoopType, ClientType, WorldType, JobType

LEMMA JobFacts ==
  ASSUME JobType, Busy
  PROVE  /\ job \in Job /\ job.o \in Objective /\ job.stamp \in Stamp
         /\ \A label \in Label :
              To(label) \in Job /\ To(label).at = label /\ To(label).o = job.o
              /\ To(label).stamp = job.stamp /\ To(label).code = job.code
              /\ To(label).mode = job.mode
         /\ \A code \in Code :
              \/ Finish(code) = Ready
              \/ /\ Finish(code) \in Job /\ Finish(code).o = job.o
                 /\ Finish(code).at = "reply" /\ Finish(code).code = code
                 /\ Finish(code).stamp = job.stamp
<1>1. job \in Job
  BY DEF JobType, Busy, Ready
<1>2. \A label \in Label :
              To(label) \in Job /\ To(label).at = label /\ To(label).o = job.o
              /\ To(label).stamp = job.stamp /\ To(label).code = job.code
              /\ To(label).mode = job.mode
  BY <1>1 DEF To, Job
<1>3. ASSUME NEW code \in Code, job.mode = "submit"
      PROVE  /\ Finish(code) \in Job /\ Finish(code).o = job.o
             /\ Finish(code).at = "reply" /\ Finish(code).code = code
             /\ Finish(code).stamp = job.stamp
  BY <1>1, <1>3 DEF Finish, Job, Label
<1>4. ASSUME NEW code \in Code, job.mode # "submit"
      PROVE  Finish(code) = Ready
  BY <1>4 DEF Finish
<1> QED
  BY <1>1, <1>2, <1>3, <1>4 DEF Job

-----------------------------------------------------------------------------
(* A restart *)

\* What is durable is sound after the step, and what was final stays final.
Standing ==
  \A o \in Objective : EffectInv(o)' /\ (GuardReady(o) => GuardReady(o)')

LEMMA AnswerStands ==
  ASSUME IInv, Standing,
         runtime'.at = "tick" => runtime' = runtime \/ GuardReady(runtime'.o),
         ClientType'
  PROVE  AnswerIsDurable'
<1> SUFFICES ASSUME NEW t \in Objective, runtime'.at = "tick", runtime'.o = t
             PROVE  GuardReady(t)'
  BY DEF AnswerIsDurable, GuardReady, ClientType, Idle
<1>1. GuardReady(t)
  BY DEF IInv, AnswerIsDurable, GuardReady
<1> QED
  BY <1>1 DEF Standing

LEMMA RestartKeeps ==
  ASSUME IInv, Upheld, NEW records \in [Objective -> Record], RestartFrom(records),
         attempts' = attempts, WorldType', \A o \in Objective : Dated(records[o])',
         Standing
  PROVE  IInv'
<1> USE DEF RestartFrom
<1>1. RecordsType' /\ LoopType' /\ ClientType' /\ JobType'
  BY TypeParts DEF IInv, RecordsType, LoopType, ClientType, JobType, Unsettled
<1>2. TypeOK'
  BY <1>1, TypeParts, PTL DEF Upheld
<1>3. ~Busy' /\ LoopInv'
  BY DEF Busy, Ready, LoopInv, Unsettled
<1>4. StampInv'
  BY <1>3 DEF StampInv
<1>5. SyncInv'
  BY DEF SyncInv, Synced, Unsaved, Ready
<1>6. AnswerIsDurable'
  BY <1>1, AnswerStands DEF Idle
<1> QED
  BY <1>2, <1>3, <1>4, <1>5, <1>6 DEF IInv, Standing

-----------------------------------------------------------------------------
(* What may happen to the durable records *)

LEMMA NothingStands ==
  ASSUME IInv, Upheld, UNCHANGED <<stored, service, external>>
  PROVE  Standing
  BY DEF IInv, Upheld, service, external, Standing, EffectInv, GuardReady

\* Executing advances one write-ahead record and counts the effect with it.
LEMMA ExecuteFacts ==
  ASSUME IInv, NEW o \in Objective, NEW s, Execute(o, s)
  PROVE  /\ provider' = [provider EXCEPT ![o] = s]
         /\ provider' \in [Objective -> {"IDLE", "INTENT", "APPLIED", "RECORDED"}]
         /\ world' \in [Objective -> Nat]
         /\ provider[o] = "RECORDED" => s = "RECORDED"
         /\ \A x \in Objective \ {o} : world'[x] = world[x]
         /\ world'[o] = IF s \in {"IDLE", "INTENT"} THEN 0 ELSE 1
<1>1. WorldType /\ EffectInv(o)
  BY TypeParts DEF IInv
<1>2. /\ provider' = [provider EXCEPT ![o] = s]
      /\ s \in {"IDLE", "INTENT", "APPLIED", "RECORDED"}
      /\ provider[o] = "RECORDED" => s = "RECORDED"
      /\ provider[o] \in {"APPLIED", "RECORDED"} => s \in {"APPLIED", "RECORDED"}
  BY <1>1 DEF Execute, Stages, WorldType
<1>3. world[o] = IF provider[o] \in {"IDLE", "INTENT"} THEN 0 ELSE 1
  BY <1>1 DEF EffectInv
<1> QED
  BY <1>1, <1>2, <1>3 DEF Execute, Applies, WorldType

\* A record may replace the durable one of its effect.
MayFollow(o, record) ==
  /\ record.state \in Dispatched \cup Succeeded => Licensed(o, record.stamp)
  /\ record.state \notin Dispatched \cup Succeeded => provider[o] = "IDLE"
  /\ record.state \in Succeeded => projection[o] \in Committed
  /\ record.state = "REJECTED" => projection[o] = "REJECTED"
  /\ stored[o].state \in Succeeded => record.state \in Succeeded

LEMMA SavedStands ==
  ASSUME IInv, Upheld, NEW o \in Objective, NEW record, MayFollow(o, record),
         stored' \in {stored, [stored EXCEPT ![o] = record]},
         UNCHANGED <<service, external>>
  PROVE  Standing
<1> SUFFICES ASSUME NEW x \in Objective
             PROVE  EffectInv(x)' /\ (GuardReady(x) => GuardReady(x)')
  BY DEF Standing
<1>1. EffectInv(x) /\ RecordsType
  BY TypeParts DEF IInv
<1>2. CASE stored'[x] = stored[x]
  BY <1>1, <1>2 DEF Upheld, service, external, EffectInv, GuardReady
<1>3. CASE x = o /\ stored'[x] = record
  BY <1>1, <1>3 DEF Upheld, service, external, EffectInv, GuardReady, MayFollow
<1> QED
  BY <1>1, <1>2, <1>3 DEF RecordsType

\* A dispatched effect may be executed, whatever of it is stored with that.
LEMMA ExecutedStands ==
  ASSUME IInv, Upheld, NEW o \in Objective, NEW record, NEW s,
         stored[o].state \in Dispatched, record.state \in Dispatched,
         record.stamp = stored[o].stamp,
         stored' \in {stored, [stored EXCEPT ![o] = record]},
         Execute(o, s), UNCHANGED service
  PROVE  Standing
<1> SUFFICES ASSUME NEW x \in Objective
             PROVE  EffectInv(x)' /\ (GuardReady(x) => GuardReady(x)')
  BY DEF Standing
<1>1. EffectInv(x) /\ EffectInv(o) /\ RecordsType /\ WorldType
  BY TypeParts DEF IInv
<1>2. CASE x # o
  <2>1. stored'[x] = stored[x] /\ provider'[x] = provider[x] /\ world'[x] = world[x]
    BY <1>1, <1>2, ExecuteFacts DEF RecordsType, WorldType
  <2> QED
    BY <1>1, <2>1 DEF Upheld, service, EffectInv, GuardReady
<1>3. CASE x = o
  <2>1. /\ stored'[o].state \in Dispatched /\ stored'[o].stamp = stored[o].stamp
        /\ provider'[o] = s
        /\ world'[o] = IF s \in {"IDLE", "INTENT"} THEN 0 ELSE 1
        /\ provider[o] = "RECORDED" => s = "RECORDED"
    BY <1>1, ExecuteFacts DEF RecordsType, WorldType
  <2>2. Licensed(o, stored[o].stamp)'
    BY <1>1, <2>1 DEF EffectInv, Upheld
  <2>3. stored[o].state \notin Succeeded /\ stored'[o].state \notin Succeeded \cup {"REJECTED"}
    BY <2>1 DEF Dispatched, Succeeded
  <2>4. EffectInv(o)'
    BY <1>1, <2>1, <2>2, <2>3 DEF service, EffectInv, GuardReady
  <2> QED
    BY <1>3, <2>3, <2>4 DEF GuardReady
<1> QED
  BY <1>2, <1>3

\* A projection may move to where its effect has come.
LEMMA ProjectedStands ==
  ASSUME IInv, Upheld, NEW o \in Objective, NEW s,
         projection' = [projection EXCEPT ![o] = s],
         projection[o] \in Committed => s \in Committed,
         s \in Committed => provider[o] = "RECORDED",
         stored[o].state = "REJECTED" => s = "REJECTED",
         UNCHANGED <<stored, objective, guard, external>>
  PROVE  Standing
<1> SUFFICES ASSUME NEW x \in Objective
             PROVE  EffectInv(x)' /\ (GuardReady(x) => GuardReady(x)')
  BY DEF Standing
<1>1. EffectInv(x) /\ WorldType
  BY TypeParts DEF IInv
<1>2. CASE projection'[x] = projection[x]
  BY <1>1, <1>2 DEF Upheld, external, EffectInv, GuardReady
<1>3. CASE x = o /\ projection'[x] = s
  BY <1>1, <1>3 DEF Upheld, external, EffectInv, GuardReady
<1> QED
  BY <1>1, <1>2, <1>3 DEF WorldType

\* A guard is written as the records say; an objective is satisfied by them.
LEMMA VouchedStands ==
  ASSUME IInv, Upheld, NEW o \in Objective,
         guard' \in {guard, [guard EXCEPT ![o] = GuardReady(o)]},
         \/ objective' = objective
         \/ objective' = [objective EXCEPT ![o] = "SATISFIED"] /\ GuardReady(o)
         \/ objective' = [objective EXCEPT ![o] = "CANCELLED"],
         UNCHANGED <<stored, projection, external>>
  PROVE  Standing
<1> SUFFICES ASSUME NEW x \in Objective
             PROVE  EffectInv(x)' /\ (GuardReady(x) => GuardReady(x)')
  BY DEF Standing
<1>1. EffectInv(x) /\ WorldType
  BY TypeParts DEF IInv
<1>2. GuardReady(x)' <=> GuardReady(x)
  BY DEF GuardReady
<1>3. guard'[x] => GuardReady(x)
  BY <1>1 DEF EffectInv, WorldType
<1>4. objective'[x] = "SATISFIED" => GuardReady(x)
  BY <1>1 DEF EffectInv, WorldType
<1> QED
  BY <1>1, <1>2, <1>3, <1>4 DEF Upheld, external, EffectInv

-----------------------------------------------------------------------------
(* What a job may do between two calls *)

LEMMA StampsAreTimes == \A s \in Stamp \cup {0} : s \in Int
  BY BrokerAssumption DEF A!ConstantsAssumption

LEMMA DatedStays ==
  ASSUME IInv, Upheld, NEW record \in Record, Dated(record)
  PROVE  Dated(record)'
<1>1. clock \in Int /\ clock' \in Int /\ clock <= clock' /\ record.stamp \in Int
  BY TypeParts, StampsAreTimes DEF IInv, Upheld, A!TypeOK, Record
<1> QED
  BY <1>1 DEF Dated

LEMMA StampsStay ==
  ASSUME IInv, Upheld
  PROVE  \A s \in Stamp : s <= clock => s <= clock'
<1>1. clock \in Int /\ clock' \in Int /\ clock <= clock'
  BY TypeParts DEF IInv, Upheld, A!TypeOK
<1> QED
  BY <1>1, StampsAreTimes

\* The job goes on with its effect or is done, and the ledger may run ahead of
\* the checkpoint where the labels say so.
LEMMA MoveKeeps ==
  ASSUME IInv, Upheld, Busy, NEW record \in Record, Dated(record),
         record.stamp = stored[job.o].stamp,
         ledger' = [ledger EXCEPT ![job.o] = record],
         UNCHANGED <<durable, round, sweep, owed, client>>,
         pending' \in SUBSET Objective,
         job' \in Job \cup {Ready},
         job' = Ready \/ (job'.o = job.o /\ job'.stamp = job.stamp),
         job'.at \in Unsaved \/ record.state = stored[job.o].state,
         WorldType', Standing, (Busy => JobInv)'
  PROVE  IInv'
<1>0. job.o \in Objective /\ job.stamp \in Stamp
  BY TypeParts, JobFacts DEF IInv
<1>1. RecordsType /\ LoopType /\ ClientType /\ LoopInv /\ StampInv /\ SyncInv
  BY TypeParts DEF IInv
<1>2. RecordsType' /\ LoopType' /\ ClientType' /\ JobType'
  BY <1>0, <1>1 DEF RecordsType, LoopType, ClientType, JobType, durable, client
<1>3. TypeOK'
  BY <1>2, TypeParts, PTL DEF Upheld
<1>4. LoopInv'
  BY <1>0, <1>1 DEF LoopInv, Unsettled, RecordsType, Busy, Ready
<1>5. StampInv'
  <2>1. \A o \in Objective : Dated(stored[o]) /\ stored[o] \in Record
    BY <1>1 DEF StampInv, RecordsType
  <2>2. \A o \in Objective : Dated(ledger[o]) /\ ledger[o] \in Record
    BY <1>1 DEF StampInv, RecordsType
  <2>3. \A o \in Objective : Dated(stored[o])'
    BY <2>1, DatedStays DEF durable
  <2>4. \A o \in Objective : Dated(ledger[o])'
    BY <1>0, <1>1, <2>2, DatedStays DEF RecordsType
  <2>5. (Busy => job.stamp <= clock)'
    BY <1>0, <1>1, StampsStay DEF StampInv, Busy, Ready
  <2>6. (inbox # Nothing => inbox.stamp <= clock)'
    BY <1>1, StampsStay DEF StampInv, client, ClientType
  <2> QED
    BY <2>3, <2>4, <2>5, <2>6 DEF StampInv
<1>6. SyncInv'
  BY <1>0, <1>1 DEF SyncInv, Synced, RecordsType, Unsaved, Ready, durable
<1>7. AnswerIsDurable'
  BY <1>2, AnswerStands DEF client
<1> QED
  BY <1>3, <1>4, <1>5, <1>6, <1>7 DEF IInv, Standing

\* A checkpoint is refused, and the process restarts, or it is written.
Saved(o, record, next) ==
  /\ ledger' = [ledger EXCEPT ![o] = record]
  /\ stored'[o].state = record.state /\ stored'[o].stamp = record.stamp
  /\ job' = next

LEMMA MergedType ==
  ASSUME NEW o \in Objective, RecordsType, NEW log \in Attempts
  PROVE  Merged(o, log) \in Attempts
  BY DEF Merged, Attempts, RecordsType

LEMMA SaveCases ==
  ASSUME RecordsType, NEW o \in Objective, NEW record \in Record, NEW next,
         record.stamp = stored[o].stamp \/ record.state # stored[o].state,
         Save(o, record, next)
  PROVE  /\ stored' \in {stored, [stored EXCEPT ![o] = record]}
         /\ \/ Restart
            \/ /\ Saved(o, record, next)
               /\ RecordsType'
               /\ UNCHANGED <<loop, client>>
<1>1. record.log \in Attempts /\ Merged(o, record.log) \in Attempts
  BY MergedType DEF Record
<1> QED
  BY <1>1 DEF Save, Saved, Restart, RestartFrom, RecordsType

LEMMA SaveKeeps ==
  ASSUME IInv, Upheld, Busy, NEW record \in Record, Dated(record),
         NEW next \in Job \cup {Ready},
         record.stamp = stored[job.o].stamp \/ record.state # stored[job.o].state,
         Save(job.o, record, next),
         next = Ready \/ (next.o = job.o /\ next.stamp = job.stamp),
         next.at \notin Unsaved,
         WorldType', Standing,
         Saved(job.o, record, next) => (Busy => JobInv)'
  PROVE  IInv'
<1>0. job.o \in Objective /\ job.stamp \in Stamp
  BY TypeParts, JobFacts DEF IInv
<1>1. RecordsType /\ LoopType /\ ClientType /\ LoopInv /\ StampInv /\ SyncInv
  BY TypeParts DEF IInv
<1>2. \A o \in Objective : /\ Dated(stored[o]) /\ stored[o] \in Record
                           /\ Dated(ledger[o]) /\ ledger[o] \in Record
  BY <1>1 DEF StampInv, RecordsType
<1>3. CASE Restart
  BY <1>1, <1>2, <1>3, RestartKeeps, DatedStays DEF Restart, RecordsType
<1>4. CASE /\ Saved(job.o, record, next)
           /\ RecordsType'
           /\ UNCHANGED <<loop, client>>
  <2>1. TypeOK'
    <3>1. LoopType' /\ ClientType' /\ JobType'
      BY <1>1, <1>4 DEF LoopType, ClientType, JobType, loop, client, Saved
    <3> QED
      BY <1>4, <3>1, TypeParts, PTL DEF Upheld
  <2>2. LoopInv'
    BY <1>0, <1>1, <1>4 DEF LoopInv, Unsettled, RecordsType, Busy, Ready, loop, Saved
  <2>3. StampInv'
    <3>1. stored' \in {stored, [stored EXCEPT ![job.o] = record]}
      BY <1>0, <1>1, SaveCases
    <3>2. \A o \in Objective : Dated(stored[o])'
      BY <1>0, <1>1, <1>2, <3>1, DatedStays DEF RecordsType
    <3>3. \A o \in Objective : Dated(ledger[o])'
      BY <1>0, <1>1, <1>2, <1>4, DatedStays DEF RecordsType, Saved
    <3>4. (Busy => job.stamp <= clock)'
      BY <1>0, <1>1, <1>4, StampsStay DEF StampInv, Busy, Ready, Saved
    <3>5. (inbox # Nothing => inbox.stamp <= clock)'
      BY <1>1, <1>4, StampsStay DEF StampInv, client, ClientType
    <3> QED
      BY <3>2, <3>3, <3>4, <3>5 DEF StampInv
  <2>4. SyncInv'
    <3>1. stored' \in {stored, [stored EXCEPT ![job.o] = record]}
      BY <1>0, <1>1, SaveCases
    <3> QED
      BY <1>0, <1>1, <1>4, <3>1 DEF SyncInv, Synced, RecordsType, Saved
  <2>5. AnswerIsDurable'
    <3>1. ClientType'
      BY <1>1, <1>4 DEF ClientType, client
    <3> QED
      BY <1>4, <3>1, AnswerStands DEF client
  <2> QED
    BY <1>4, <2>1, <2>2, <2>3, <2>4, <2>5 DEF IInv, Standing
<1> QED
  BY <1>0, <1>1, <1>3, <1>4, SaveCases

\* What is known while a job is in work.
LEMMA BusyFacts ==
  ASSUME IInv, Busy
  PROVE  /\ job.o \in Objective /\ job.stamp \in Stamp /\ job.at \in Label
         /\ ledger[job.o] \in Record /\ stored[job.o] \in Record
         /\ Dated(ledger[job.o]) /\ ledger[job.o].stamp = stored[job.o].stamp
         /\ job.at \notin Unsaved => ledger[job.o].state = stored[job.o].state
         /\ JobInv /\ EffectInv(job.o) /\ A!TypeOK /\ RecordsType /\ LoopType /\ WorldType
         /\ job.stamp <= clock
<1>1. job \in Job /\ job.o \in Objective /\ job.stamp \in Stamp
  BY TypeParts, JobFacts DEF IInv
<1> QED
  BY <1>1, TypeParts DEF IInv, Job, RecordsType, StampInv, SyncInv, Synced

\* The job goes on and the ledger stays.
LEMMA GoKeeps ==
  ASSUME IInv, Upheld, Busy, NEW label \in Label, Go(label),
         job.at \notin Unsaved \/ label \in Unsaved,
         UNCHANGED <<ledger, durable, round, sweep, owed, client>>,
         pending' \in SUBSET Objective,
         WorldType', Standing, JobInv'
  PROVE  IInv'
<1>1. /\ job' \in Job /\ job'.at = label /\ job'.o = job.o /\ job'.stamp = job.stamp
  BY TypeParts, JobFacts DEF IInv, Go
<1> QED
  BY <1>1, BusyFacts, MoveKeeps DEF RecordsType

\* The job is answered or done.
LEMMA DoneKeeps ==
  ASSUME IInv, Upheld, Busy, job.at \notin Unsaved,
         NEW code \in Code, Done(code), code = "COMMITTED" => GuardReady(job.o),
         UNCHANGED <<ledger, durable, round, sweep, owed, client>>,
         pending' \in SUBSET Objective,
         WorldType', Standing
  PROVE  IInv'
<1>1. \/ job' = Ready
      \/ /\ job' \in Job /\ job'.at = "reply" /\ job'.o = job.o
         /\ job'.stamp = job.stamp /\ job'.code = code
  BY TypeParts, JobFacts DEF IInv, Done
<1>2. job.o \in Objective
  BY BusyFacts
<1>3. code = "COMMITTED" => projection'[job.o] \in Committed /\ stored'[job.o].state \in Succeeded
  BY <1>2 DEF Standing, GuardReady
<1>4. (Busy => JobInv)'
  BY <1>1, <1>3 DEF Busy, Ready, JobInv, GuardReady
<1> QED
  BY <1>1, <1>4, BusyFacts, MoveKeeps DEF RecordsType, Ready

LEMMA RestKeeps ==
  ASSUME IInv, Upheld, Busy, job.at \notin Unsaved, job' = Ready,
         UNCHANGED <<ledger, durable, round, sweep, owed, client>>,
         pending' \in SUBSET Objective,
         WorldType', Standing
  PROVE  IInv'
<1>1. (Busy => JobInv)'
  BY DEF Busy, Ready
<1> QED
  BY <1>1, BusyFacts, MoveKeeps DEF RecordsType, Ready

\* Faults stay within their bound.
LEMMA WorldStays ==
  ASSUME IInv, Fault \/ Calm, UNCHANGED <<service, external>>
  PROVE  WorldType'
  BY TypeParts, EffectAssumption DEF IInv, WorldType, Fault, Calm, service, external

-----------------------------------------------------------------------------
(* Submissions *)

LEMMA AcceptKeeps == ASSUME IInv, Upheld, Accept PROVE IInv'
<1>1. /\ inbox \in [o : Objective, stamp : Stamp, heard : BOOLEAN]
      /\ RecordsType /\ LoopType /\ ClientType /\ WorldType /\ LoopInv
      /\ StampInv /\ SyncInv
      /\ job = Ready /\ sweep = {}
  BY TypeParts DEF IInv, Accept, ClientType, LoopInv, At, JobType, Job, Label
<1>2. /\ job' \in Job /\ job'.o = inbox.o /\ job'.at = "admit" /\ job'.stamp = inbox.stamp
  BY <1>1 DEF Accept, Job, Label, Code
<1>3. RecordsType' /\ LoopType' /\ ClientType' /\ WorldType' /\ JobType'
  BY <1>1, <1>2 DEF Accept, RecordsType, LoopType, ClientType, WorldType, JobType,
                    durable, loop, service, external
<1>4. TypeOK'
  BY <1>3, TypeParts, PTL DEF Upheld
<1>5. Standing
  BY NothingStands DEF Accept, durable
<1>6. LoopInv'
  BY <1>1 DEF LoopInv, Accept, loop
<1>7. StampInv'
  <2>1. \A o \in Objective : Dated(stored[o])' /\ Dated(ledger[o])'
    BY <1>1, DatedStays DEF StampInv, RecordsType, Accept, durable
  <2>2. inbox.stamp <= clock'
    BY <1>1, StampsStay DEF StampInv, Accept
  <2> QED
    BY <1>2, <2>1, <2>2 DEF StampInv, Accept
<1>8. SyncInv'
  BY <1>1, <1>2 DEF SyncInv, Synced, Accept, durable, Unsaved, Ready
<1>9. JobInv'
  BY <1>2 DEF JobInv
<1>10. AnswerIsDurable'
  BY <1>3, <1>5, AnswerStands DEF Accept
<1> QED
  BY <1>4, <1>5, <1>6, <1>7, <1>8, <1>9, <1>10 DEF IInv, Standing

LEMMA AdmitKeeps == ASSUME IInv, Upheld, Admit PROVE IInv'
<1>1. Busy /\ job.at \notin Unsaved /\ (Fault \/ Calm)
  BY DEF Busy, Admit, At, Unsaved
<1>2. WorldType' /\ Standing
  BY <1>1, WorldStays, NothingStands DEF Admit, durable
<1>3. UNCHANGED <<ledger, durable, round, sweep, owed, client>> /\ pending' \in SUBSET Objective
  BY <1>1, BusyFacts DEF Admit, loop, LoopType
<1>4. CASE Go("prepare")
  <2>1. job'.at = "prepare" /\ job'.o = job.o /\ job'.stamp = job.stamp
    BY <1>1, <1>4, JobFacts, TypeParts DEF Go, Label, IInv
  <2>2. ~Done("UNAUTHORIZED")
    BY <1>1, <2>1, JobFacts, TypeParts DEF Done, Code, Ready, IInv
  <2>3. ~Conflict
    BY <2>2 DEF Admit
  <2>4. JobInv'
    BY <2>1, <2>3, <1>3 DEF JobInv, Conflict
  <2> QED
    BY <1>1, <1>2, <1>3, <1>4, <2>4, GoKeeps DEF Label
<1>5. ASSUME NEW code \in Code, Done(code), code = "COMMITTED" => GuardReady(job.o)
      PROVE  IInv'
  BY <1>1, <1>2, <1>3, <1>5, DoneKeeps
<1>6. CASE ledger[job.o].state \in Terminal /\ Done(TerminalCode(job.o))
  <2>1. TerminalCode(job.o) \in Code
    BY DEF TerminalCode, Code
  <2>2. TerminalCode(job.o) = "COMMITTED" => GuardReady(job.o)
    BY <1>1, BusyFacts DEF TerminalCode, GuardReady
  <2> QED
    BY <1>5, <1>6, <2>1, <2>2
<1> QED
  BY <1>4, <1>5, <1>6 DEF Admit, Code

LEMMA GoFacts ==
  ASSUME IInv, Busy, NEW label \in Label, Go(label)
  PROVE  job'.at = label /\ job'.o = job.o /\ job'.stamp = job.stamp
  BY TypeParts, JobFacts DEF IInv, Go

\* A call that leaves all records alone.
LEMMA QuietKeeps ==
  ASSUME IInv, Upheld, Busy, job.at \notin Unsaved, Fault \/ Calm,
         UNCHANGED <<ledger, durable, loop, client, service, external>>,
         \/ job' = Ready
         \/ \E code \in Code \ {"COMMITTED"} : Done(code)
         \/ \E label \in Label : Go(label) /\ JobInv'
  PROVE  IInv'
<1>1. WorldType' /\ Standing
  BY WorldStays, NothingStands DEF durable
<1>2. UNCHANGED <<ledger, durable, round, sweep, owed, client>> /\ pending' \in SUBSET Objective
  BY BusyFacts DEF loop, LoopType
<1> QED
  BY <1>1, <1>2, GoKeeps, DoneKeeps, RestKeeps

LEMMA PrepareKeeps == ASSUME IInv, Upheld, Prepare PROVE IInv'
<1>1. Busy /\ job.at \notin Unsaved /\ (Fault \/ Calm)
  BY DEF Busy, Prepare, At, Unsaved, Lost
<1>2. CASE Go("reserve")
  <2>1. job'.at = "reserve" /\ job'.o = job.o /\ job'.stamp = job.stamp
    BY <1>1, <1>2, GoFacts DEF Label
  <2>2. JobInv'
    BY <1>1, <2>1, BusyFacts DEF Prepare, At, JobInv
  <2> QED
    BY <1>1, <1>2, <2>2, QuietKeeps DEF Prepare, Label
<1>3. CASE Done("UNAUTHORIZED") \/ Done("UNAVAILABLE")
  BY <1>1, <1>3, QuietKeeps DEF Prepare, Code
<1> QED
  BY <1>2, <1>3 DEF Prepare

LEMMA CheckWindowKeeps == ASSUME IInv, Upheld, CheckWindow PROVE IInv'
<1>1. Busy /\ job.at \notin Unsaved
  BY DEF Busy, CheckWindow, At, Unsaved
<1>2. PICK label \in {"commit", "expire", "abort"} : Go(label)
  BY DEF CheckWindow
<1>3. job'.at = label /\ job'.o = job.o /\ job'.stamp = job.stamp
  BY <1>1, <1>2, GoFacts DEF Label
<1>4. JobInv'
  BY <1>1, <1>2, <1>3, BusyFacts DEF CheckWindow, At, JobInv
<1> QED
  BY <1>1, <1>2, <1>4, QuietKeeps DEF CheckWindow, Label, Calm

LEMMA CommitKeeps == ASSUME IInv, Upheld, Commit PROVE IInv'
<1>1. Busy /\ job.at \notin Unsaved /\ (Fault \/ Calm)
  BY DEF Busy, Commit, At, Unsaved, Lost
<1>2. CASE A!Commit(Request) /\ reply'.code = "AUTHORIZED" /\ Go("dispatch")
  <2>1. job'.at = "dispatch" /\ job'.o = job.o /\ job'.stamp = job.stamp
    BY <1>1, <1>2, GoFacts DEF Label
  <2>2. \A o \in Objective : o = job.o => Licensed(o, job.stamp)'
    BY <1>1, <1>2, <2>1, BusyFacts DEF Request, Upheld
  <2>3. JobInv'
    BY <1>1, <2>1, <2>2, BusyFacts DEF Commit, At, JobInv
  <2> QED
    BY <1>1, <1>2, <2>3, QuietKeeps DEF Commit, Label
<1>3. CASE Done("UNAUTHORIZED") \/ Done("UNAVAILABLE")
  BY <1>1, <1>3, QuietKeeps DEF Commit, Code
<1> QED
  BY <1>2, <1>3 DEF Commit

\* A checkpoint of a record that may follow, with the world at rest.
LEMMA CheckpointKeeps ==
  ASSUME IInv, Upheld, Busy, Fault \/ Calm, UNCHANGED <<service, external>>,
         NEW record \in Record, Dated(record), MayFollow(job.o, record),
         NEW next \in Job \cup {Ready},
         record.stamp = stored[job.o].stamp \/ record.state # stored[job.o].state,
         Save(job.o, record, next),
         next = Ready \/ (next.o = job.o /\ next.stamp = job.stamp),
         next.at \notin Unsaved,
         Saved(job.o, record, next) => (Busy => JobInv)'
  PROVE  IInv'
<1>1. stored' \in {stored, [stored EXCEPT ![job.o] = record]}
  BY BusyFacts, SaveCases
<1>2. Standing
  BY <1>1, BusyFacts, SavedStands
<1> QED
  BY <1>2, WorldStays, SaveKeeps

\* The record that is durable may be written again.
LEMMA SameFollows ==
  ASSUME IInv, NEW o \in Objective, NEW record,
         record.state = stored[o].state, record.stamp = stored[o].stamp
  PROVE  MayFollow(o, record)
  BY DEF IInv, EffectInv, MayFollow, Succeeded

LEMMA NoAttemptsType == NoAttempts \in Attempts
<1> DEFINE S == (1..MaxClock) \X Finding
<1>1. <<>> \in [1..0 -> S]
  BY SMT
<1>2. 0 \in 0..MaxTries
  BY EffectAssumption
<1>3. <<>> \in UNION {[1..n -> S] : n \in 0..MaxTries}
  BY <1>1, <1>2
<1> QED
  BY <1>3 DEF NoAttempts, Attempts, Response

LEMMA NewRecordFacts ==
  ASSUME IInv, Busy
  PROVE  /\ NewRecord \in Record /\ Dated(NewRecord)
         /\ NewRecord.state = "RESERVED" /\ NewRecord.stamp = job.stamp
  BY BusyFacts, NoAttemptsType DEF NewRecord, Record, EffectState, Dated

LEMMA ReserveKeeps == ASSUME IInv, Upheld, Reserve PROVE IInv'
<1>1. Busy /\ job.at = "reserve" /\ job.at \notin Unsaved /\ Calm
  BY DEF Busy, Reserve, At, Unsaved, Calm
<1>2. CASE ledger[job.o].state = "NONE" /\ Save(job.o, NewRecord, To("bound"))
  <2>1. /\ NewRecord \in Record /\ Dated(NewRecord)
        /\ NewRecord.state = "RESERVED" /\ NewRecord.stamp = job.stamp
    BY <1>1, NewRecordFacts
  <2>2. stored[job.o].state = "NONE" /\ EffectInv(job.o)
    BY <1>1, <1>2, BusyFacts
  <2>3. MayFollow(job.o, NewRecord)
    BY <2>1, <2>2 DEF MayFollow, EffectInv, Dispatched, Succeeded
  <2>4. ASSUME Saved(job.o, NewRecord, To("bound"))
        PROVE  (Busy => JobInv)'
    <3>1. job'.at = "bound" /\ job'.o = job.o /\ job'.stamp = job.stamp
      BY <1>1, <2>4, JobFacts, TypeParts DEF Saved, Label, IInv
    <3>2. ledger'[job.o] = NewRecord
      BY <1>1, <2>4, BusyFacts DEF Saved, RecordsType
    <3> QED
      BY <2>1, <3>1, <3>2 DEF JobInv
  <2>5. /\ To("bound") \in Job /\ To("bound").o = job.o /\ To("bound").stamp = job.stamp
        /\ To("bound").at \notin Unsaved
    BY <1>1, JobFacts, TypeParts DEF Label, Unsaved, IInv
  <2> QED
    BY <1>1, <1>2, <2>1, <2>2, <2>3, <2>4, <2>5, CheckpointKeeps DEF Reserve
<1>3. ASSUME ledger[job.o].state # "NONE",
             NEW next \in {To("bound"), Finish("UNAUTHORIZED")},
             next = To("bound") => ledger[job.o].state = "RESERVED",
             Save(job.o, ledger[job.o], next)
      PROVE  IInv'
  <2>1. /\ next \in Job \cup {Ready}
        /\ next.at \in {"bound", "reply", "ready"}
        /\ next.at = "bound" => next = To("bound")
        /\ next.at = "reply" => next.code = "UNAUTHORIZED"
        /\ next = Ready \/ (next.o = job.o /\ next.stamp = job.stamp)
    BY <1>1, <1>3, JobFacts, TypeParts DEF Label, IInv, Code, Ready
  <2>2. next.at \notin Unsaved
    BY <2>1 DEF Unsaved
  <2>3. MayFollow(job.o, ledger[job.o])
    BY <1>1, BusyFacts, SameFollows
  <2>4. ASSUME Saved(job.o, ledger[job.o], next)
        PROVE  (Busy => JobInv)'
    <3>1. ledger'[job.o] = ledger[job.o] /\ job' = next
      BY <1>1, <2>4, BusyFacts DEF Saved, RecordsType
    <3>2. ledger[job.o].stamp = job.stamp
      BY <1>1, <1>3, BusyFacts DEF JobInv
    <3> QED
      BY <1>3, <2>1, <3>1, <3>2 DEF JobInv, Busy, Ready
  <2> QED
    BY <1>1, <1>3, <2>1, <2>2, <2>3, <2>4, BusyFacts, CheckpointKeeps DEF Reserve
<1>4. CASE ledger[job.o].state # "NONE"
  <2>1. CASE ledger[job.o].state = "RESERVED"
    BY <1>3, <1>4, <2>1 DEF Reserve
  <2>2. CASE ledger[job.o].state # "RESERVED"
    <3>1. To("bound") # Finish("UNAUTHORIZED")
      BY <1>1, JobFacts, TypeParts DEF Label, Code, Ready, IInv
    <3> QED
      BY <1>3, <1>4, <2>2, <3>1 DEF Reserve
  <2> QED
    BY <2>1, <2>2
<1> QED
  BY <1>2, <1>4 DEF Reserve

LEMMA ReserveFailsKeeps == ASSUME IInv, Upheld, ReserveFails PROVE IInv'
<1>1. Busy /\ job.at = "reserve" /\ job.at \notin Unsaved /\ Fault
  BY DEF Busy, ReserveFails, At, Unsaved, Lost
<1>2. PICK records \in {stored, [stored EXCEPT ![job.o] = NewRecord]} :
        /\ RestartFrom(records)
        /\ records = stored \/ ledger[job.o].state = "NONE"
  BY DEF ReserveFails
<1>3. /\ NewRecord \in Record /\ Dated(NewRecord)
      /\ NewRecord.state = "RESERVED" /\ NewRecord.stamp = job.stamp
  BY <1>1, NewRecordFacts
<1>4. /\ records \in [Objective -> Record]
      /\ \A o \in Objective : records[o] \in Record /\ Dated(records[o])
  <2>1. \A o \in Objective : Dated(stored[o]) /\ stored[o] \in Record
    BY TypeParts DEF IInv, StampInv, RecordsType
  <2> QED
    BY <1>1, <1>3, <2>1, BusyFacts DEF RecordsType
<1>5. \A o \in Objective : Dated(records[o])'
  BY <1>4, DatedStays
<1>6. Standing
  <2>1. stored' \in {stored, [stored EXCEPT ![job.o] = NewRecord]}
    BY <1>2 DEF RestartFrom
  <2>2. CASE stored' = stored
    BY <2>2, NothingStands DEF ReserveFails
  <2>3. CASE stored' # stored
    <3>1. stored[job.o].state = "NONE" /\ EffectInv(job.o)
      BY <1>1, <1>2, <2>3, BusyFacts DEF RestartFrom
    <3>2. MayFollow(job.o, NewRecord)
      BY <1>3, <3>1 DEF MayFollow, EffectInv, Dispatched, Succeeded
    <3> QED
      BY <1>1, <2>1, <3>2, BusyFacts, SavedStands DEF ReserveFails
  <2> QED
    BY <2>2, <2>3
<1> QED
  BY <1>1, <1>2, <1>4, <1>5, <1>6, WorldStays, RestartKeeps DEF ReserveFails

LEMMA BecomeFacts ==
  ASSUME IInv, Busy, ledger[job.o].state # "NONE", NEW state \in EffectState
  PROVE  /\ Become(state) \in Record /\ Dated(Become(state))
         /\ Become(state).state = state
         /\ Become(state).stamp = ledger[job.o].stamp
         /\ Become(state).log = ledger[job.o].log
  BY BusyFacts DEF Become, Record, Dated, EffectState

\* The ledger runs ahead of the checkpoint.
LEMMA KeepKeeps ==
  ASSUME IInv, Upheld, Busy, NEW record \in Record, Dated(record), Keep(record),
         record.stamp = ledger[job.o].stamp,
         NEW label \in Label \cap Unsaved, Go(label),
         UNCHANGED <<durable, loop, client>>,
         WorldType', Standing, JobInv'
  PROVE  IInv'
<1>1. /\ job' \in Job /\ job'.at = label /\ job'.o = job.o /\ job'.stamp = job.stamp
  BY TypeParts, JobFacts DEF IInv, Go
<1>2. UNCHANGED <<round, sweep, owed>> /\ pending' \in SUBSET Objective
  BY BusyFacts DEF loop, LoopType
<1> QED
  BY <1>1, <1>2, BusyFacts, MoveKeeps DEF Keep

LEMMA KeepFacts ==
  ASSUME IInv, Busy, NEW record, Keep(record)
  PROVE  ledger'[job.o] = record
  BY BusyFacts DEF Keep, RecordsType

\* A reserved effect is rejected in the ledger.
LEMMA RejectKeeps ==
  ASSUME IInv, Upheld, Busy, job.at \in {"expire", "abort", "inspect"},
         Fault \/ Calm, Keep(Become("REJECTED")),
         NEW label \in {"rejecting", "rejected"}, Go(label),
         label = "rejected" => projection[job.o] = "REJECTED",
         UNCHANGED <<durable, loop, client, service, external>>
  PROVE  IInv'
<1>1. ledger[job.o].state = "RESERVED" /\ stored[job.o].state = "RESERVED"
  BY BusyFacts DEF JobInv, Unsaved
<1>2. /\ Become("REJECTED") \in Record /\ Dated(Become("REJECTED"))
      /\ Become("REJECTED").state = "REJECTED"
      /\ Become("REJECTED").stamp = ledger[job.o].stamp
      /\ ledger'[job.o] = Become("REJECTED")
  BY <1>1, BecomeFacts, KeepFacts DEF EffectState
<1>3. job'.at = label /\ job'.o = job.o
  BY GoFacts DEF Label
<1>4. JobInv'
  BY <1>1, <1>2, <1>3 DEF JobInv, durable, service
<1>5. WorldType' /\ Standing
  BY WorldStays, NothingStands DEF durable
<1> QED
  BY <1>2, <1>4, <1>5, KeepKeeps DEF Label, Unsaved

LEMMA ExpireKeeps == ASSUME IInv, Upheld, Expire PROVE IInv'
  BY RejectKeeps DEF Expire, Busy, At, Lost

LEMMA AbortReservedKeeps == ASSUME IInv, Upheld, AbortReserved PROVE IInv'
<1>1. Busy /\ job.at = "abort" /\ job.at \notin Unsaved /\ (Fault \/ Calm)
  BY DEF AbortReserved, Busy, At, Lost, Unsaved
<1>2. CASE Keep(Become("REJECTED")) /\ Go("rejecting")
  BY <1>1, <1>2, RejectKeeps DEF AbortReserved
<1>3. CASE UNCHANGED ledger /\ job' = Ready
  BY <1>1, <1>3, QuietKeeps DEF AbortReserved
<1> QED
  BY <1>2, <1>3 DEF AbortReserved

LEMMA StatusReservedKeeps == ASSUME IInv, Upheld, StatusReserved PROVE IInv'
<1>1. Busy /\ job.at = "status" /\ job.at \notin Unsaved /\ (Fault \/ Calm)
  BY DEF StatusReserved, Busy, At, Lost, Unsaved
<1>2. ledger[job.o].state = "RESERVED" /\ ledger[job.o].stamp = job.stamp
  BY <1>1, BusyFacts DEF JobInv
<1>3. CASE A!Status(Request) /\ reply'.code = "AUTHORIZED" /\ Go("dispatch")
  <2>1. job'.at = "dispatch" /\ job'.o = job.o /\ job'.stamp = job.stamp
    BY <1>1, <1>3, GoFacts DEF Label
  <2>2. \A o \in Objective : o = job.o => Licensed(o, job.stamp)'
    BY <1>1, <1>3, <2>1, BusyFacts DEF Request, Upheld
  <2>3. JobInv'
    BY <1>1, <1>2, <2>1, <2>2, BusyFacts DEF StatusReserved, JobInv
  <2> QED
    BY <1>1, <1>3, <2>3, QuietKeeps DEF StatusReserved, Label
<1>4. CASE Go("bound")
  <2>1. job'.at = "bound" /\ job'.o = job.o /\ job'.stamp = job.stamp
    BY <1>1, <1>4, GoFacts DEF Label
  <2>2. JobInv'
    BY <1>2, <2>1 DEF StatusReserved, JobInv
  <2> QED
    BY <1>1, <1>4, <2>2, QuietKeeps DEF StatusReserved, Label
<1>5. CASE job' = Ready
  BY <1>1, <1>5, QuietKeeps DEF StatusReserved
<1> QED
  BY <1>3, <1>4, <1>5 DEF StatusReserved

LEMMA InspectReservedKeeps == ASSUME IInv, Upheld, InspectReserved PROVE IInv'
<1>1. Busy /\ job.at = "inspect" /\ job.at \notin Unsaved /\ (Fault \/ Calm)
  BY DEF InspectReserved, Busy, At, Unsaved
<1>2. CASE projection[job.o] = "REJECTED" /\ Keep(Become("REJECTED")) /\ Go("rejected")
  BY <1>1, <1>2, RejectKeeps DEF InspectReserved
<1>3. CASE Go("status") /\ UNCHANGED ledger
  <2>1. job'.at = "status" /\ job'.o = job.o /\ job'.stamp = job.stamp
    BY <1>1, <1>3, GoFacts DEF Label
  <2>2. JobInv'
    BY <1>1, <1>3, <2>1, BusyFacts DEF InspectReserved, JobInv
  <2> QED
    BY <1>1, <1>3, <2>2, QuietKeeps DEF InspectReserved, Label
<1> QED
  BY <1>2, <1>3 DEF InspectReserved

\* A restart at a point where the durable records stand as they are.
LEMMA RestartedKeeps ==
  ASSUME IInv, Upheld, Restart, WorldType', Standing
  PROVE  IInv'
<1>1. \A o \in Objective : stored[o] \in Record /\ Dated(stored[o])
  BY TypeParts DEF IInv, StampInv, RecordsType
<1> QED
  BY <1>1, DatedStays, TypeParts, RestartKeeps DEF Restart, IInv, RecordsType

LEMMA ProjectedType ==
  ASSUME IInv, NEW o \in Objective, NEW s \in ProviderState,
         projection' = [projection EXCEPT ![o] = s],
         UNCHANGED <<objective, guard, external>>, Fault \/ Calm
  PROVE  WorldType'
  BY TypeParts, EffectAssumption DEF IInv, WorldType, Fault, Calm, external

LEMMA PersistRejectionKeeps == ASSUME IInv, Upheld, PersistRejection PROVE IInv'
<1>1. Busy /\ job.at = "rejecting" /\ (Fault \/ Calm)
  BY DEF PersistRejection, Busy, At
<1>2. /\ ledger[job.o].state = "REJECTED" /\ stored[job.o].state = "RESERVED"
      /\ job.o \in Objective /\ WorldType
  BY <1>1, BusyFacts DEF JobInv
<1>3. CASE projection[job.o] = "NONE" /\ Go("rejected")
           /\ projection' = [projection EXCEPT ![job.o] = "REJECTED"]
           /\ UNCHANGED <<ledger, durable, loop, client>>
  <2>1. job'.at = "rejected" /\ job'.o = job.o
    BY <1>1, <1>3, GoFacts DEF Label
  <2>2. JobInv'
    BY <1>2, <1>3, <2>1 DEF JobInv, durable, WorldType
  <2>3. WorldType'
    BY <1>1, <1>2, <1>3, ProjectedType DEF PersistRejection, ProviderState
  <2>4. Standing
    BY <1>2, <1>3, ProjectedStands DEF PersistRejection, Committed, durable
  <2>5. UNCHANGED <<round, sweep, owed>> /\ pending' \in SUBSET Objective
    BY <1>1, <1>3, BusyFacts DEF loop, LoopType
  <2> QED
    BY <1>1, <1>3, <2>2, <2>3, <2>4, <2>5, GoKeeps DEF Label, Unsaved
<1>4. CASE Restart /\ UNCHANGED projection
  <2>1. WorldType' /\ Standing
    BY <1>1, <1>4, WorldStays, NothingStands
    DEF PersistRejection, Restart, RestartFrom, service
  <2> QED
    BY <1>4, <2>1, RestartedKeeps
<1>5. CASE Restart /\ Advance(job.o, IF projection[job.o] = "NONE" THEN {"NONE", "REJECTED"}
                                     ELSE {projection[job.o]})
  <2>1. PICK s \in {projection[job.o], "REJECTED"} :
          /\ projection' = [projection EXCEPT ![job.o] = s]
          /\ projection[job.o] # "NONE" => s = projection[job.o]
    BY <1>5 DEF Advance
  <2>2. WorldType'
    BY <1>1, <1>2, <2>1, ProjectedType DEF PersistRejection, ProviderState, WorldType
  <2>3. EffectInv(job.o)
    BY <1>1, BusyFacts
  <2>4. Standing
    BY <1>2, <1>5, <2>1, <2>3, ProjectedStands
    DEF PersistRejection, Committed, Restart, RestartFrom, EffectInv
  <2> QED
    BY <1>5, <2>2, <2>4, RestartedKeeps
<1> QED
  BY <1>3, <1>4, <1>5 DEF PersistRejection

\* The checkpoint of what the ledger holds, after which the job is done.
LEMMA StoreKeeps ==
  ASSUME IInv, Upheld, Busy, Calm, UNCHANGED <<service, external>>,
         MayFollow(job.o, ledger[job.o]),
         NEW next, Save(job.o, ledger[job.o], next),
         \/ next = Ready
         \/ \E code \in Code \ {"COMMITTED"} : next = Finish(code)
  PROVE  IInv'
<1>1. /\ next \in Job \cup {Ready}
      /\ next.at \in {"reply", "ready"}
      /\ next.at = "reply" => next.code # "COMMITTED"
      /\ next = Ready \/ (next.o = job.o /\ next.stamp = job.stamp)
  BY JobFacts, TypeParts DEF IInv, Ready
<1>2. next.at \notin Unsaved
  BY <1>1 DEF Unsaved
<1>3. ASSUME Saved(job.o, ledger[job.o], next)
      PROVE  (Busy => JobInv)'
  BY <1>1, <1>3 DEF Saved, Busy, JobInv
<1> QED
  BY <1>1, <1>2, <1>3, BusyFacts, CheckpointKeeps

LEMMA StoreRejectionKeeps == ASSUME IInv, Upheld, StoreRejection PROVE IInv'
<1>1. Busy /\ job.at = "rejected" /\ Calm
  BY DEF StoreRejection, Busy, At, Calm
<1>2. /\ ledger[job.o].state = "REJECTED" /\ stored[job.o].state = "RESERVED"
      /\ projection[job.o] = "REJECTED" /\ EffectInv(job.o)
  BY <1>1, BusyFacts DEF JobInv
<1>3. MayFollow(job.o, ledger[job.o])
  BY <1>2 DEF MayFollow, EffectInv, Dispatched, Succeeded
<1> QED
  BY <1>1, <1>3, StoreKeeps DEF StoreRejection, Code

LEMMA ReplyKeeps == ASSUME IInv, Upheld, Reply PROVE IInv'
<1>1. Busy /\ job.at = "reply" /\ job.at \notin Unsaved /\ Calm
  BY DEF Reply, Busy, At, Unsaved, Calm
<1>2. WorldType' /\ Standing
  <2>1. UNCHANGED stored
    BY DEF Reply, Restart, RestartFrom, durable
  <2> QED
    BY <1>1, <2>1, WorldStays, NothingStands DEF Reply
<1>3. CASE job.heard
  <2>1. /\ runtime' = CASE job.code = "COMMITTED" -> [at |-> "tick", o |-> job.o]
                        [] job.code = "UNAUTHORIZED" -> [at |-> "deny", o |-> job.o]
                        [] OTHER -> Idle
        /\ job' = Ready
        /\ UNCHANGED <<ledger, durable, loop, inbox>>
    BY <1>3 DEF Reply
  <2>2. RecordsType' /\ LoopType' /\ ClientType' /\ JobType'
    BY <1>1, <2>1, BusyFacts, TypeParts
    DEF IInv, RecordsType, LoopType, ClientType, JobType, durable, loop
  <2>3. TypeOK'
    BY <1>2, <2>2, TypeParts, PTL DEF Upheld
  <2>4. ~Busy' /\ LoopInv'
    BY <2>1 DEF Busy, Ready, LoopInv, loop, Unsettled, IInv
  <2>5. StampInv'
    <3>1. \A o \in Objective : /\ stored[o] \in Record /\ Dated(stored[o])
                               /\ ledger[o] \in Record /\ Dated(ledger[o])
      BY TypeParts DEF IInv, StampInv, RecordsType
    <3>2. \A o \in Objective : Dated(stored[o])' /\ Dated(ledger[o])'
      BY <2>1, <3>1, DatedStays DEF durable
    <3>3. (inbox # Nothing => inbox.stamp <= clock)'
      BY <2>1, TypeParts, StampsStay DEF IInv, StampInv, ClientType
    <3> QED
      BY <2>4, <3>2, <3>3 DEF StampInv
  <2>6. SyncInv'
    BY <1>1, <2>1 DEF IInv, SyncInv, Synced, Unsaved, Ready, durable
  <2>7. runtime'.at = "tick" => GuardReady(runtime'.o)
    <3>1. job.code = "COMMITTED" => GuardReady(job.o)
      BY <1>1, BusyFacts DEF JobInv
    <3> QED
      BY <2>1, <3>1 DEF Idle
  <2>8. AnswerIsDurable'
    BY <1>2, <2>2, <2>7, AnswerStands
  <2> QED
    BY <1>2, <2>3, <2>4, <2>5, <2>6, <2>8 DEF IInv, Standing
<1>4. CASE ~job.heard
  <2>1. Restart
    BY <1>4 DEF Reply
  <2> QED
    BY <1>2, <2>1, RestartedKeeps
<1> QED
  BY <1>3, <1>4

-----------------------------------------------------------------------------
(* Dispatch, execution and observation *)

LEMMA DispatchKeeps == ASSUME IInv, Upheld, Dispatch PROVE IInv'
<1>1. Busy /\ job.at = "dispatch" /\ job.at \notin Unsaved /\ Calm
  BY DEF Dispatch, Busy, At, Unsaved, Calm
<1>2. /\ ledger[job.o].state = "RESERVED" /\ ledger[job.o].stamp = job.stamp
      /\ Licensed(job.o, job.stamp) /\ stored[job.o].state = "RESERVED"
  BY <1>1, BusyFacts DEF JobInv
<1>3. /\ Become("EXECUTING") \in Record /\ Dated(Become("EXECUTING"))
      /\ Become("EXECUTING").state = "EXECUTING"
      /\ Become("EXECUTING").stamp = ledger[job.o].stamp
  BY <1>1, <1>2, BecomeFacts DEF EffectState
<1>4. MayFollow(job.o, Become("EXECUTING"))
  BY <1>2, <1>3 DEF MayFollow, Dispatched, Succeeded
<1>5. /\ To("chain") \in Job /\ To("chain").o = job.o /\ To("chain").stamp = job.stamp
      /\ To("chain").at = "chain" /\ "chain" \notin Unsaved
  BY <1>1, JobFacts, TypeParts DEF Label, Unsaved, IInv
<1>6. ASSUME Saved(job.o, Become("EXECUTING"), To("chain"))
      PROVE  (Busy => JobInv)'
  <2>1. ledger'[job.o] = Become("EXECUTING")
    BY <1>1, <1>6, BusyFacts DEF Saved, RecordsType
  <2> QED
    BY <1>3, <1>5, <1>6, <2>1 DEF Saved, JobInv
<1> QED
  BY <1>1, <1>3, <1>4, <1>5, <1>6, BusyFacts, CheckpointKeeps DEF Dispatch

\* A call to the state service while an effect is EXECUTING: the projection
\* moves or stays, and the job goes on.
LEMMA CallKeeps ==
  ASSUME IInv, Upheld, Busy, job.at \in {"chain", "observe"}, Fault \/ Calm,
         NEW s \in ProviderState, projection' = [projection EXCEPT ![job.o] = s],
         projection[job.o] \in Committed => s \in Committed,
         s \in Committed => provider[job.o] = "RECORDED",
         NEW label \in {"observed", "execute", "lost"}, Go(label),
         label = "observed" => s \in Committed,
         UNCHANGED <<ledger, durable, loop, client, objective, guard, external>>
  PROVE  IInv'
<1>1. /\ ledger[job.o].state = "EXECUTING" /\ stored[job.o].state = "EXECUTING"
      /\ job.o \in Objective /\ WorldType /\ job.at \notin Unsaved
  BY BusyFacts DEF JobInv, Unsaved
<1>2. job'.at = label /\ job'.o = job.o
  BY GoFacts DEF Label
<1>3. projection'[job.o] = s /\ provider'[job.o] = provider[job.o]
  BY <1>1 DEF WorldType, external
<1>4. JobInv'
  BY <1>1, <1>2, <1>3 DEF JobInv
<1>5. WorldType'
  BY <1>1, ProjectedType
<1>6. Standing
  BY <1>1, ProjectedStands DEF durable
<1>7. UNCHANGED <<round, sweep, owed>> /\ pending' \in SUBSET Objective
  BY BusyFacts DEF loop, LoopType
<1> QED
  BY <1>1, <1>4, <1>5, <1>6, <1>7, GoKeeps DEF Label

LEMMA DispatchChainKeeps == ASSUME IInv, Upheld, DispatchChain PROVE IInv'
<1>1. Busy /\ job.at = "chain" /\ (Fault \/ Calm)
  BY DEF DispatchChain, Busy, At
<1>2. /\ job.o \in Objective /\ projection[job.o] \in ProviderState
      /\ projection = [projection EXCEPT ![job.o] = projection[job.o]]
      /\ projection[job.o] \in Committed => provider[job.o] = "RECORDED"
  BY <1>1, BusyFacts DEF WorldType, EffectInv
<1>3. \A s \in ChainOf(projection[job.o]) :
        /\ s \in ProviderState
        /\ \/ s = projection[job.o]
           \/ s \notin Committed /\ projection[job.o] \notin Committed
  BY <1>2 DEF ChainOf, ProviderState, Committed
<1>4. CASE projection[job.o] \in Committed /\ Go("observed") /\ UNCHANGED projection
  BY <1>1, <1>2, <1>4, CallKeeps DEF DispatchChain
<1>5. CASE /\ "DISPATCHED" \in ChainOf(projection[job.o])
           /\ Reaches(job.o, "DISPATCHED") /\ Go("execute")
  <2>1. projection[job.o] \notin Committed /\ "DISPATCHED" \notin Committed
    BY <1>3, <1>5 DEF Committed
  <2> QED
    BY <1>1, <1>5, <2>1, CallKeeps DEF DispatchChain, Reaches, ProviderState
<1>6. CASE Go("lost") /\ UNCHANGED projection
  BY <1>1, <1>2, <1>6, CallKeeps DEF DispatchChain
<1>7. CASE Advance(job.o, ChainOf(projection[job.o])) /\ Go("lost")
  <2>1. PICK s \in ChainOf(projection[job.o]) \cup {projection[job.o]} :
          projection' = [projection EXCEPT ![job.o] = s]
    BY <1>7 DEF Advance
  <2> QED
    BY <1>1, <1>2, <1>3, <1>7, <2>1, CallKeeps DEF DispatchChain
<1> QED
  BY <1>4, <1>5, <1>6, <1>7 DEF DispatchChain

LEMMA ObserveProviderKeeps == ASSUME IInv, Upheld, ObserveProvider PROVE IInv'
<1>1. Busy /\ job.at = "observe" /\ (Fault \/ Calm)
  BY DEF ObserveProvider, Busy, At
<1>2. /\ job.o \in Objective /\ projection[job.o] \in ProviderState
      /\ projection = [projection EXCEPT ![job.o] = projection[job.o]]
      /\ provider[job.o] = "RECORDED"
      /\ "OBSERVED_SUCCEEDED" \in ProviderState \cap Committed
  BY <1>1, BusyFacts DEF WorldType, JobInv, ProviderState, Committed
<1>3. CASE Reaches(job.o, "OBSERVED_SUCCEEDED") /\ Go("observed")
  BY <1>1, <1>2, <1>3, CallKeeps DEF ObserveProvider, Reaches
<1>4. CASE Go("lost") /\ UNCHANGED projection
  BY <1>1, <1>2, <1>4, CallKeeps DEF ObserveProvider
<1>5. CASE Advance(job.o, {projection[job.o], "OBSERVED_SUCCEEDED"}) /\ Go("lost")
  <2>1. PICK s \in {projection[job.o], "OBSERVED_SUCCEEDED"} :
          projection' = [projection EXCEPT ![job.o] = s]
    BY <1>5 DEF Advance
  <2> QED
    BY <1>1, <1>2, <1>5, <2>1, CallKeeps DEF ObserveProvider
<1> QED
  BY <1>3, <1>4, <1>5 DEF ObserveProvider

\* The world changes under a job.
LEMMA ExecutedType ==
  ASSUME IInv, NEW o \in Objective, NEW s, Execute(o, s), Fault \/ Calm,
         UNCHANGED service
  PROVE  WorldType'
  BY ExecuteFacts, TypeParts, EffectAssumption
  DEF IInv, WorldType, Fault, Calm, service

LEMMA ExecuteProviderKeeps == ASSUME IInv, Upheld, ExecuteProvider PROVE IInv'
<1>1. Busy /\ job.at = "execute" /\ job.at \notin Unsaved /\ (Fault \/ Calm)
  BY DEF ExecuteProvider, Busy, At, Unsaved
<1>2. /\ ledger[job.o].state = "EXECUTING" /\ stored[job.o].state = "EXECUTING"
      /\ job.o \in Objective /\ WorldType
  BY <1>1, BusyFacts DEF JobInv
<1>3. PICK s \in {"IDLE", "INTENT", "APPLIED", "RECORDED"}, label \in {"observe", "lost"} :
        /\ Execute(job.o, s) /\ Go(label)
        /\ label = "observe" => s = "RECORDED"
  <2>1. CASE Execute(job.o, "RECORDED") /\ Go("observe")
    BY <2>1
  <2>2. CASE (\E s \in Stages(provider[job.o]) : Execute(job.o, s)) /\ Go("lost")
    BY <1>2, <2>2 DEF Stages, WorldType
  <2> QED
    BY <2>1, <2>2 DEF ExecuteProvider
<1>4. job'.at = label /\ job'.o = job.o
  BY <1>1, <1>3, GoFacts DEF Label
<1>5. provider'[job.o] = s
  BY <1>2, <1>3, ExecuteFacts DEF WorldType
<1>6. JobInv'
  BY <1>2, <1>3, <1>4, <1>5 DEF JobInv, ExecuteProvider
<1>7. WorldType'
  BY <1>1, <1>2, <1>3, ExecutedType DEF ExecuteProvider
<1>8. Standing
  <2>1. stored[job.o].state \in Dispatched
    BY <1>2 DEF Dispatched
  <2> QED
    BY <1>2, <1>3, <2>1, ExecutedStands DEF ExecuteProvider, durable
<1>9. UNCHANGED <<round, sweep, owed>> /\ pending' \in SUBSET Objective
  BY <1>1, BusyFacts DEF loop, LoopType, ExecuteProvider
<1> QED
  BY <1>1, <1>3, <1>6, <1>7, <1>8, <1>9, GoKeeps DEF ExecuteProvider, Label

\* A dispatched effect stays dispatched, under its licence.
LEMMA DispatchedFollows ==
  ASSUME IInv, NEW o \in Objective, NEW record,
         stored[o].state \in Dispatched, record.state \in Dispatched,
         record.stamp = stored[o].stamp
  PROVE  MayFollow(o, record)
  BY DEF IInv, EffectInv, MayFollow, Dispatched, Succeeded

\* A dispatched effect has succeeded when its projection says so.
LEMMA SuccessFollows ==
  ASSUME IInv, NEW o \in Objective, NEW record,
         stored[o].state \in Dispatched, record.state \in Succeeded,
         record.stamp = stored[o].stamp, projection[o] \in Committed
  PROVE  MayFollow(o, record)
  BY DEF IInv, EffectInv, MayFollow, Dispatched, Succeeded

LEMMA TransportLostKeeps == ASSUME IInv, Upheld, TransportLost PROVE IInv'
<1> DEFINE record == [Become("UNKNOWN") EXCEPT !.log.call = "lost"]
<1>1. Busy /\ job.at = "lost" /\ job.at \notin Unsaved /\ Calm
  BY DEF TransportLost, Busy, At, Unsaved, Calm
<1>2. /\ ledger[job.o].state = "EXECUTING" /\ stored[job.o].state = "EXECUTING"
      /\ stored[job.o].stamp = ledger[job.o].stamp /\ job.o \in Objective
  BY <1>1, BusyFacts DEF JobInv
<1>3. /\ Become("UNKNOWN") \in Record /\ Dated(Become("UNKNOWN"))
      /\ Become("UNKNOWN").state = "UNKNOWN"
      /\ Become("UNKNOWN").stamp = ledger[job.o].stamp
  BY <1>1, <1>2, BecomeFacts DEF EffectState
<1>4. /\ record \in Record /\ Dated(record)
      /\ record.state = "UNKNOWN" /\ record.stamp = ledger[job.o].stamp
  BY <1>3 DEF Record, Attempts, Response, Dated
<1>5. Save(job.o, record, Finish("UNKNOWN")) /\ UNCHANGED <<service, external>>
  BY DEF TransportLost
<1> HIDE DEF record
<1>6. MayFollow(job.o, record)
  BY <1>2, <1>4, DispatchedFollows DEF Dispatched
<1>7. /\ Finish("UNKNOWN") \in Job \cup {Ready}
      /\ Finish("UNKNOWN").at \in {"reply", "ready"}
      /\ Finish("UNKNOWN").at = "reply" => Finish("UNKNOWN").code # "COMMITTED"
      /\ \/ Finish("UNKNOWN") = Ready
         \/ Finish("UNKNOWN").o = job.o /\ Finish("UNKNOWN").stamp = job.stamp
  BY <1>1, JobFacts, TypeParts DEF IInv, Ready, Code
<1>8. Finish("UNKNOWN").at \notin Unsaved
  BY <1>7 DEF Unsaved
<1>9. ASSUME Saved(job.o, record, Finish("UNKNOWN"))
      PROVE  (Busy => JobInv)'
  BY <1>7, <1>9 DEF Saved, Busy, JobInv
<1> QED
  BY <1>1, <1>2, <1>4, <1>5, <1>6, <1>7, <1>8, <1>9, CheckpointKeeps

LEMMA StoreResponseKeeps == ASSUME IInv, Upheld, StoreResponse PROVE IInv'
<1> DEFINE record == [ledger[job.o] EXCEPT !.log.call = "answered"]
<1>1. Busy /\ job.at = "observed" /\ job.at \notin Unsaved /\ Calm
  BY DEF StoreResponse, Busy, At, Unsaved, Calm
<1>2. /\ ledger[job.o].state = "EXECUTING" /\ stored[job.o].state = "EXECUTING"
      /\ stored[job.o].stamp = ledger[job.o].stamp /\ job.o \in Objective
      /\ ledger[job.o] \in Record /\ Dated(ledger[job.o]) /\ RecordsType
      /\ projection[job.o] \in Committed /\ provider[job.o] = "RECORDED"
  BY <1>1, BusyFacts DEF JobInv
<1>3. /\ record \in Record /\ Dated(record)
      /\ record.state = "EXECUTING" /\ record.stamp = ledger[job.o].stamp
  BY <1>2 DEF Record, Attempts, Response, Dated
<1>4. Save(job.o, record, To("classify")) /\ UNCHANGED <<service, external>>
  BY DEF StoreResponse
<1> HIDE DEF record
<1>5. MayFollow(job.o, record)
  BY <1>2, <1>3, SameFollows
<1>6. /\ To("classify") \in Job /\ To("classify").o = job.o
      /\ To("classify").stamp = job.stamp
      /\ To("classify").at = "classify" /\ "classify" \notin Unsaved
  BY <1>1, JobFacts, TypeParts DEF Label, Unsaved, IInv
<1>7. ASSUME Saved(job.o, record, To("classify"))
      PROVE  (Busy => JobInv)'
  <2>1. ledger'[job.o] = record
    BY <1>2, <1>7 DEF Saved, RecordsType
  <2> QED
    BY <1>2, <1>3, <1>4, <1>6, <1>7, <2>1 DEF Saved, JobInv, service, external
<1> QED
  BY <1>1, <1>2, <1>3, <1>4, <1>5, <1>6, <1>7, CheckpointKeeps

LEMMA StoreObservationKeeps == ASSUME IInv, Upheld, StoreObservation PROVE IInv'
<1>1. Busy /\ job.at = "classify" /\ job.at \notin Unsaved /\ Calm
  BY DEF StoreObservation, Busy, At, Unsaved, Calm
<1>2. /\ ledger[job.o].state = "EXECUTING" /\ stored[job.o].state = "EXECUTING"
      /\ stored[job.o].stamp = ledger[job.o].stamp /\ job.o \in Objective
      /\ projection[job.o] \in Committed /\ provider[job.o] = "RECORDED" /\ RecordsType
  BY <1>1, BusyFacts DEF JobInv
<1>3. /\ Become("OBSERVED") \in Record /\ Dated(Become("OBSERVED"))
      /\ Become("OBSERVED").state = "OBSERVED"
      /\ Become("OBSERVED").stamp = ledger[job.o].stamp
  BY <1>1, <1>2, BecomeFacts DEF EffectState
<1>4. MayFollow(job.o, Become("OBSERVED"))
  BY <1>2, <1>3, SuccessFollows DEF Dispatched, Succeeded
<1>5. /\ To("guard") \in Job /\ To("guard").o = job.o /\ To("guard").stamp = job.stamp
      /\ To("guard").at = "guard" /\ "guard" \notin Unsaved
  BY <1>1, JobFacts, TypeParts DEF Label, Unsaved, IInv
<1>6. ASSUME Saved(job.o, Become("OBSERVED"), To("guard"))
      PROVE  (Busy => JobInv)'
  <2>1. ledger'[job.o] = Become("OBSERVED")
    BY <1>2, <1>6 DEF Saved, RecordsType
  <2> QED
    BY <1>2, <1>3, <1>5, <1>6, <2>1
    DEF StoreObservation, Saved, JobInv, service, external, Succeeded
<1> QED
  BY <1>1, <1>2, <1>3, <1>4, <1>5, <1>6, CheckpointKeeps DEF StoreObservation

\* The guard of an effect, written in a job or after a sweep.
LEMMA WriteGuardFacts ==
  ASSUME IInv, NEW o \in Objective, WriteGuard(o),
         UNCHANGED <<projection, objective, external>>
  PROVE  /\ guard' \in {guard, [guard EXCEPT ![o] = GuardReady(o)]}
         /\ pending' \in SUBSET Objective
         /\ WorldType'
         /\ Fault \/ Calm
<1>1. WorldType /\ LoopType
  BY TypeParts DEF IInv
<1>2. GuardReady(o) \in BOOLEAN
  BY DEF GuardReady
<1>3. guard' \in {guard, [guard EXCEPT ![o] = GuardReady(o)]} /\ (Fault \/ Calm)
  BY DEF WriteGuard
<1>4. guard' \in [Objective -> BOOLEAN]
  BY <1>1, <1>2, <1>3 DEF WorldType
<1>5. pending' \in SUBSET Objective
  BY <1>1 DEF WriteGuard, LoopType
<1>6. faults' \in 0..MaxFaults
  BY <1>1, <1>3, EffectAssumption DEF WorldType, Fault, Calm
<1> QED
  BY <1>1, <1>3, <1>4, <1>5, <1>6 DEF WorldType, external

LEMMA GuardObjectiveKeeps == ASSUME IInv, Upheld, GuardObjective PROVE IInv'
<1>1. Busy /\ job.at = "guard" /\ job.at \notin Unsaved
  BY DEF GuardObjective, Busy, At, Unsaved
<1>2. job.o \in Objective /\ GuardReady(job.o)
  BY <1>1, BusyFacts DEF JobInv, GuardReady
<1>3. /\ guard' \in {guard, [guard EXCEPT ![job.o] = GuardReady(job.o)]}
      /\ pending' \in SUBSET Objective /\ WorldType'
  BY <1>2, WriteGuardFacts DEF GuardObjective
<1>4. Standing
  BY <1>2, <1>3, VouchedStands DEF GuardObjective, durable
<1> QED
  BY <1>1, <1>2, <1>3, <1>4, DoneKeeps DEF GuardObjective, Code

-----------------------------------------------------------------------------
(* Reconciliation attempts *)

Try == (1..MaxClock) \X Finding

LEMMA TriesAreSeqs ==
  \A t : t \in UNION {[1..n -> Try] : n \in 0..MaxTries}
           <=> t \in Seq(Try) /\ Len(t) <= MaxTries
<1>1. ASSUME NEW n \in 0..MaxTries, NEW t \in [1..n -> Try]
      PROVE  t \in Seq(Try) /\ Len(t) <= MaxTries
  <2>1. n \in Nat /\ t \in Seq(Try)
    BY <1>1, EffectAssumption, SeqDef
  <2>2. DOMAIN t = 1..Len(t) /\ DOMAIN t = 1..n /\ Len(t) \in Nat
    BY <2>1, LenProperties
  <2>3. Len(t) = n
    BY <2>1, <2>2
  <2> QED
    BY <2>1, <2>3
<1>2. ASSUME NEW t \in Seq(Try), Len(t) <= MaxTries
      PROVE  t \in UNION {[1..n -> Try] : n \in 0..MaxTries}
  <2>1. Len(t) \in 0..MaxTries /\ t \in [1..Len(t) -> Try]
    BY <1>2, EffectAssumption, LenProperties
  <2> QED
    BY <2>1
<1> QED
  BY <1>1, <1>2

LEMMA LogFacts ==
  ASSUME NEW record \in Record
  PROVE  /\ record.log \in Attempts
         /\ record.log.tries \in Seq(Try) /\ Len(record.log.tries) \in Nat
         /\ Len(record.log.tries) <= MaxTries
<1>1. record.log \in Attempts
  BY DEF Record
<1>2. record.log.tries \in UNION {[1..n -> Try] : n \in 0..MaxTries}
  BY <1>1 DEF Attempts, Try
<1> QED
  BY <1>1, <1>2, TriesAreSeqs, LenProperties

Relogged(record, tries, state) ==
  [record EXCEPT !.state = state, !.log.tries = tries]

\* The log with other tries is a log, if they are within the bound.
LEMMA RelogFacts ==
  ASSUME NEW record \in Record, NEW tries \in Seq(Try), Len(tries) <= MaxTries,
         NEW state \in EffectState
  PROVE  /\ Relogged(record, tries, state) \in Record
         /\ Relogged(record, tries, state).state = state
         /\ Relogged(record, tries, state).stamp = record.stamp
         /\ Relogged(record, tries, state).log.tries = tries
<1>1. tries \in UNION {[1..n -> (1..MaxClock) \X Finding] : n \in 0..MaxTries}
  BY TriesAreSeqs DEF Try
<1>2. [record.log EXCEPT !.tries = tries] \in Attempts
  BY <1>1 DEF Record, Attempts
<1> QED
  BY <1>2 DEF Relogged, Record, Attempts

LEMMA AttemptFacts ==
  ASSUME IInv, Busy, ledger[job.o].state # "NONE",
         Len(ledger[job.o].log.tries) < MaxTries,
         NEW finding \in Finding, NEW state \in EffectState
  PROVE  /\ Attempt(finding, state) \in Record /\ Dated(Attempt(finding, state))
         /\ Attempt(finding, state).state = state
         /\ Attempt(finding, state).stamp = ledger[job.o].stamp
         /\ Len(Attempt(finding, state).log.tries) > 0
<1> DEFINE record == ledger[job.o]
           tries == Append(record.log.tries, <<clock, finding>>)
<1>1. record \in Record /\ Dated(record) /\ A!TypeOK
  BY BusyFacts
<1>2. <<clock, finding>> \in Try
  BY <1>1 DEF Try, A!TypeOK
<1>3. /\ tries \in Seq(Try) /\ Len(tries) = Len(record.log.tries) + 1
  BY <1>1, <1>2, LogFacts, AppendProperties
<1>4. Len(tries) <= MaxTries /\ Len(tries) > 0
  BY <1>1, <1>3, LogFacts, EffectAssumption
<1>5. Attempt(finding, state) = Relogged(record, tries, state)
  BY DEF Attempt, Relogged
<1> HIDE DEF tries, record
<1>6. /\ Relogged(record, tries, state) \in Record
      /\ Relogged(record, tries, state).state = state
      /\ Relogged(record, tries, state).stamp = record.stamp
      /\ Relogged(record, tries, state).log.tries = tries
  BY <1>1, <1>3, <1>4, RelogFacts
<1>7. Dated(Attempt(finding, state))
  BY <1>1, <1>5, <1>6 DEF Dated, record
<1> QED
  BY <1>4, <1>5, <1>6, <1>7 DEF record

LEMMA ClassifiedFacts ==
  ASSUME IInv, Busy, ledger[job.o].state # "NONE",
         Len(ledger[job.o].log.tries) > 0,
         NEW finding \in Finding, NEW state \in EffectState
  PROVE  /\ Classified(finding, state) \in Record /\ Dated(Classified(finding, state))
         /\ Classified(finding, state).state = state
         /\ Classified(finding, state).stamp = ledger[job.o].stamp
<1> DEFINE record == ledger[job.o]
           old == record.log.tries
           n == Len(old)
           tries == [old EXCEPT ![n] = [old[n] EXCEPT ![2] = finding]]
<1>1. record \in Record /\ Dated(record)
  BY BusyFacts
<1>2. old \in Seq(Try) /\ n \in 1..Len(old) /\ Len(old) <= MaxTries
  BY <1>1, LogFacts
<1>3. [old[n] EXCEPT ![2] = finding] \in Try
  <2>1. old[n] \in (1..MaxClock) \X Finding
    BY <1>2, ElementOfSeq DEF Try
  <2> HIDE DEF old, n
  <2> QED
    BY <2>1 DEF Try
<1>4. tries \in Seq(Try) /\ Len(tries) = Len(old)
  BY <1>2, <1>3, ExceptSeq
<1>5. Classified(finding, state) = Relogged(record, tries, state)
  BY <1>1 DEF Classified, Relogged, Record, Attempts
<1>6. Len(tries) <= MaxTries
  BY <1>2, <1>4
<1> HIDE DEF tries, record, old, n
<1>7. /\ Relogged(record, tries, state) \in Record
      /\ Relogged(record, tries, state).state = state
      /\ Relogged(record, tries, state).stamp = record.stamp
  BY <1>1, <1>4, <1>6, RelogFacts
<1>8. Dated(Classified(finding, state))
  BY <1>1, <1>5, <1>7 DEF Dated, record
<1> QED
  BY <1>5, <1>7, <1>8 DEF record

-----------------------------------------------------------------------------
(* Steps beside the job *)

\* The job and its records stay; the loop, the clients and the guards move.
LEMMA BesideKeeps ==
  ASSUME IInv, Upheld, UNCHANGED <<ledger, durable, projection, external>>,
         job' \in Job \cup {Ready}, job'.at = job.at,
         Busy => job'.o = job.o /\ job'.stamp = job.stamp /\ job'.code = job.code,
         LoopType', LoopInv', ClientType', WorldType', Standing,
         (inbox # Nothing => inbox.stamp <= clock)',
         runtime'.at = "tick" => runtime' = runtime \/ GuardReady(runtime'.o)
  PROVE  IInv'
<1>1. RecordsType' /\ JobType'
  BY TypeParts DEF IInv, RecordsType, JobType, durable
<1>2. TypeOK'
  BY <1>1, TypeParts, PTL DEF Upheld
<1>3. StampInv'
  <2>1. \A o \in Objective : /\ stored[o] \in Record /\ Dated(stored[o])
                             /\ ledger[o] \in Record /\ Dated(ledger[o])
    BY TypeParts DEF IInv, StampInv, RecordsType
  <2>2. \A o \in Objective : Dated(stored[o])' /\ Dated(ledger[o])'
    BY <2>1, DatedStays DEF durable
  <2>3. (Busy => job.stamp <= clock)'
    BY BusyFacts, StampsStay DEF Busy
  <2> QED
    BY <2>2, <2>3 DEF StampInv
<1>4. SyncInv'
  <2>1. job.at \in Unsaved => job'.o = job.o
    BY DEF Busy, Unsaved
  <2> QED
    BY <2>1 DEF IInv, SyncInv, Synced, durable
<1>5. (Busy => JobInv)'
  <2> SUFFICES ASSUME Busy, job'.at = job.at, job'.o = job.o, job'.stamp = job.stamp,
                      job'.code = job.code
               PROVE  JobInv'
    BY DEF Busy
  <2>1. JobInv /\ (Licensed(job.o, job.stamp) => Licensed(job.o, job.stamp)')
    BY BusyFacts DEF Upheld
  <2> QED
    BY <2>1 DEF JobInv, GuardReady, durable, external
<1>6. AnswerIsDurable'
  BY AnswerStands
<1> QED
  BY <1>2, <1>3, <1>4, <1>5, <1>6 DEF IInv, Standing

\* The loop and the clients move.
LEMMA LoopKeeps ==
  ASSUME IInv, Upheld, Fault \/ Calm,
         UNCHANGED <<ledger, durable, job, service, external>>,
         LoopType', LoopInv', ClientType',
         (inbox # Nothing => inbox.stamp <= clock)',
         runtime'.at = "tick" => runtime' = runtime \/ GuardReady(runtime'.o)
  PROVE  IInv'
<1>1. WorldType' /\ Standing
  BY WorldStays, NothingStands DEF durable
<1>2. job' \in Job \cup {Ready}
  BY TypeParts DEF IInv, JobType
<1> QED
  BY <1>1, <1>2, BesideKeeps DEF service

LEMMA ClientsStay ==
  ASSUME IInv, Upheld, UNCHANGED client
  PROVE  /\ ClientType'
         /\ (inbox # Nothing => inbox.stamp <= clock)'
         /\ runtime' = runtime
  BY TypeParts, StampsStay DEF IInv, StampInv, ClientType, client

LEMMA SweepKeeps ==
  ASSUME IInv, Upheld, StartSweep \/ EndSweep \/ EndRound
  PROVE  IInv'
<1>1. /\ LoopType /\ LoopInv /\ ~Busy
      /\ UNCHANGED <<ledger, durable, job, client, service, external>> /\ Calm
  BY TypeParts DEF IInv, StartSweep, EndSweep, EndRound, Busy, At, Calm
<1>2. LoopType'
  BY <1>1 DEF StartSweep, EndSweep, EndRound, LoopType, Unsettled, Successful
<1>3. LoopInv'
  BY <1>1 DEF StartSweep, EndSweep, EndRound, LoopInv, Unsettled, Busy
<1> QED
  BY <1>1, <1>2, <1>3, ClientsStay, LoopKeeps

LEMMA RewriteGuardKeeps ==
  ASSUME IInv, Upheld, NEW o \in Objective, RewriteGuard(o)
  PROVE  IInv'
<1>1. /\ guard' \in {guard, [guard EXCEPT ![o] = GuardReady(o)]}
      /\ pending' \in SUBSET Objective /\ WorldType'
  BY WriteGuardFacts DEF RewriteGuard
<1>2. Standing
  BY <1>1, VouchedStands DEF RewriteGuard, durable
<1>3. LoopType /\ LoopInv /\ job \in Job \cup {Ready}
  BY TypeParts DEF IInv, JobType
<1>4. LoopType' /\ LoopInv'
  BY <1>1, <1>3 DEF LoopType, LoopInv, RewriteGuard, Unsettled, Busy
<1> QED
  BY <1>1, <1>2, <1>3, <1>4, ClientsStay, BesideKeeps DEF RewriteGuard

LEMMA VisitKeeps ==
  ASSUME IInv, Upheld, NEW o \in Objective, Visit(o)
  PROVE  IInv'
<1>1. /\ LoopType /\ LoopInv /\ ~Busy /\ RecordsType /\ o \in sweep
      /\ UNCHANGED <<ledger, durable, pending, round, owed, client, service, external>>
      /\ Calm /\ sweep' = sweep \ {o} /\ job \in Job \cup {Ready}
  BY TypeParts DEF IInv, Visit, Busy, At, Calm, JobType
<1>2. /\ ledger[o].state \in {"RESERVED", "EXECUTING", "UNKNOWN", "RECONCILING"}
      /\ ledger[o] \in Record /\ Dated(ledger[o])
  BY <1>1 DEF LoopInv, Unsettled, Record, EffectState, Terminal, Succeeded,
              RecordsType, IInv, StampInv
<1>3. LoopType'
  BY <1>1 DEF LoopType
<1>4. CASE job' = Ready
  <2>1. LoopInv' /\ job = Ready
    BY <1>1, <1>4 DEF LoopInv, Busy, Ready, Job, Label, Unsettled
  <2> QED
    BY <1>1, <1>3, <1>4, <2>1, ClientsStay, LoopKeeps
<1>5. CASE /\ ~Exhausted(ledger[o])
           /\ job' = [at |-> EntryOf(ledger[o]), o |-> o, stamp |-> ledger[o].stamp,
                      mode |-> "sweep", heard |-> FALSE, code |-> "NONE"]
  <2>1. /\ job' \in Job /\ job'.o = o /\ job'.stamp = ledger[o].stamp
        /\ job'.at = EntryOf(ledger[o]) /\ job'.at \in {"inspect", "chain", "probe"}
    BY <1>2, <1>5 DEF EntryOf, Job, Label, Code, Dated
  <2>2. RecordsType' /\ ClientType' /\ WorldType' /\ JobType'
    BY <1>1, <2>1, ClientsStay, WorldStays DEF RecordsType, durable, JobType
  <2>3. TypeOK'
    BY <1>3, <2>2, TypeParts, PTL DEF Upheld
  <2>4. LoopInv'
    BY <1>1, <2>1 DEF LoopInv, Unsettled, LoopType
  <2>5. StampInv'
    <3>1. \A x \in Objective : /\ stored[x] \in Record /\ Dated(stored[x])
                               /\ ledger[x] \in Record /\ Dated(ledger[x])
      BY <1>1 DEF IInv, StampInv, RecordsType
    <3>2. \A x \in Objective : Dated(stored[x])' /\ Dated(ledger[x])'
      BY <1>1, <3>1, DatedStays DEF durable
    <3>3. job'.stamp <= clock'
      BY <1>1, <2>1, <3>2 DEF Dated
    <3> QED
      BY <1>1, <3>2, <3>3, ClientsStay DEF StampInv
  <2>6. SyncInv'
    BY <1>1, <2>1 DEF IInv, SyncInv, Synced, durable, Unsaved, Busy
  <2>7. JobInv'
    BY <1>1, <1>2, <1>5, <2>1, LogFacts, EffectAssumption DEF JobInv, EntryOf, Exhausted, Unknown
  <2>8. Standing
    BY <1>1, NothingStands DEF durable
  <2>9. AnswerIsDurable'
    BY <1>1, <2>2, <2>8, ClientsStay, AnswerStands
  <2> QED
    BY <2>3, <2>4, <2>5, <2>6, <2>7, <2>8, <2>9 DEF IInv, Standing
<1> QED
  BY <1>4, <1>5 DEF Visit

-----------------------------------------------------------------------------
(* Reconciliation *)

\* The states that a job of an unknown outcome may be in.
LEMMA UnknownFacts ==
  ASSUME IInv, Busy, job.at \in {"probe", "uncertain", "reread", "resolve"}
  PROVE  /\ ledger[job.o].state \in Unknown /\ stored[job.o].state \in Unknown
         /\ ledger[job.o].stamp = stored[job.o].stamp
         /\ ledger[job.o].state # "NONE" /\ stored[job.o].state \in Dispatched
         /\ job.o \in Objective /\ RecordsType /\ WorldType /\ EffectInv(job.o)
         /\ projection[job.o] \in Committed => provider[job.o] = "RECORDED"
<1>1. ledger[job.o].state \in Unknown /\ stored[job.o].state \in Unknown
  BY BusyFacts DEF JobInv, Unsaved, Unknown
<1> QED
  BY <1>1, BusyFacts DEF Unknown, Dispatched, EffectInv

\* The outcome is settled by a projection that is terminal already.
LEMMA SettleKeeps ==
  ASSUME IInv, Upheld, Busy, job.at \in {"probe", "reread"}, Calm,
         UNCHANGED <<service, external>>, projection[job.o] \in Committed,
         NEW record \in Record, Dated(record), record.state = "RESOLVED",
         record.stamp = ledger[job.o].stamp,
         Save(job.o, record, To("guard"))
  PROVE  IInv'
<1>1. /\ stored[job.o].state \in Dispatched /\ provider[job.o] = "RECORDED"
      /\ ledger[job.o].stamp = stored[job.o].stamp /\ job.o \in Objective /\ RecordsType
  BY UnknownFacts
<1>2. MayFollow(job.o, record)
  BY <1>1, SuccessFollows DEF Succeeded
<1>3. /\ To("guard") \in Job /\ To("guard").o = job.o /\ To("guard").stamp = job.stamp
      /\ To("guard").at = "guard" /\ "guard" \notin Unsaved
  BY JobFacts, TypeParts DEF Label, Unsaved, IInv
<1>4. ASSUME Saved(job.o, record, To("guard"))
      PROVE  (Busy => JobInv)'
  <2>1. ledger'[job.o] = record
    BY <1>1, <1>4 DEF Saved, RecordsType
  <2> QED
    BY <1>1, <1>3, <1>4, <2>1 DEF Saved, JobInv, service, external, Succeeded
<1> QED
  BY <1>1, <1>2, <1>3, <1>4, CheckpointKeeps

LEMMA ProbeKeeps == ASSUME IInv, Upheld, Probe PROVE IInv'
<1>1. /\ Busy /\ job.at = "probe" /\ job.at \notin Unsaved /\ (Fault \/ Calm)
      /\ UNCHANGED service
  BY DEF Probe, Busy, At, Unsaved
<1>2. /\ ledger[job.o].state # "NONE" /\ stored[job.o].state \in Dispatched
      /\ stored[job.o].state \in Unknown
      /\ ledger[job.o].stamp = stored[job.o].stamp /\ job.o \in Objective
      /\ Len(ledger[job.o].log.tries) < MaxTries /\ RecordsType /\ WorldType
  BY <1>1, UnknownFacts, BusyFacts DEF JobInv
<1>3. CASE /\ Calm /\ projection[job.o] \in Committed
           /\ Save(job.o, Attempt("settled", "RESOLVED"), To("guard"))
           /\ UNCHANGED external
  <2>1. /\ Attempt("settled", "RESOLVED") \in Record
        /\ Dated(Attempt("settled", "RESOLVED"))
        /\ Attempt("settled", "RESOLVED").state = "RESOLVED"
        /\ Attempt("settled", "RESOLVED").stamp = ledger[job.o].stamp
    BY <1>1, <1>2, AttemptFacts DEF Finding, EffectState
  <2> QED
    BY <1>1, <1>3, <2>1, SettleKeeps
<1>4. CASE /\ Execute(job.o, "RECORDED")
           /\ Keep(Attempt("open", "RECONCILING"))
           /\ Go("uncertain")
           /\ UNCHANGED <<durable, loop, client>>
  <2>1. /\ Attempt("open", "RECONCILING") \in Record
        /\ Dated(Attempt("open", "RECONCILING"))
        /\ Attempt("open", "RECONCILING").state = "RECONCILING"
        /\ Attempt("open", "RECONCILING").stamp = ledger[job.o].stamp
        /\ Len(Attempt("open", "RECONCILING").log.tries) > 0
    BY <1>1, <1>2, AttemptFacts DEF Finding, EffectState
  <2>2. ledger'[job.o] = Attempt("open", "RECONCILING")
    BY <1>1, <1>4, <2>1, KeepFacts
  <2>3. job'.at = "uncertain" /\ job'.o = job.o
    BY <1>1, <1>4, GoFacts DEF Label
  <2>4. provider'[job.o] = "RECORDED"
    BY <1>2, <1>4, ExecuteFacts DEF WorldType
  <2>5. JobInv'
    BY <1>2, <1>4, <2>1, <2>2, <2>3, <2>4 DEF JobInv, durable
  <2>6. WorldType'
    BY <1>1, <1>2, <1>4, ExecutedType
  <2>7. Standing
    BY <1>2, <1>4, <1>1, ExecutedStands DEF durable
  <2> QED
    BY <1>1, <1>4, <2>1, <2>5, <2>6, <2>7, KeepKeeps DEF Label, Unsaved
<1>5. CASE /\ \E s \in Stages(provider[job.o]) : Execute(job.o, s)
           /\ Save(job.o, Attempt("unobserved", "RECONCILING"), Ready)
  <2>1. /\ Attempt("unobserved", "RECONCILING") \in Record
        /\ Dated(Attempt("unobserved", "RECONCILING"))
        /\ Attempt("unobserved", "RECONCILING").state = "RECONCILING"
        /\ Attempt("unobserved", "RECONCILING").stamp = ledger[job.o].stamp
    BY <1>1, <1>2, AttemptFacts DEF Finding, EffectState
  <2>2. PICK s : Execute(job.o, s)
    BY <1>5
  <2>3. stored' \in {stored, [stored EXCEPT ![job.o] = Attempt("unobserved", "RECONCILING")]}
    BY <1>2, <1>5, <2>1, SaveCases
  <2>4. Standing
    BY <1>1, <1>2, <2>1, <2>2, <2>3, ExecutedStands DEF Dispatched
  <2>5. WorldType'
    BY <1>1, <1>2, <2>2, ExecutedType
  <2>6. Saved(job.o, Attempt("unobserved", "RECONCILING"), Ready) => (Busy => JobInv)'
    BY DEF Saved, Busy, Ready
  <2> QED
    BY <1>1, <1>2, <1>5, <2>1, <2>4, <2>5, <2>6, SaveKeeps DEF Ready, Unsaved
<1> QED
  BY <1>3, <1>4, <1>5 DEF Probe

LEMMA ProbeFailsKeeps == ASSUME IInv, Upheld, ProbeFails PROVE IInv'
  BY WorldStays, NothingStands, RestartedKeeps DEF ProbeFails, Restart, RestartFrom

\* The projection of an unknown outcome moves, or stays, and the job goes on.
LEMMA UncertainKeeps ==
  ASSUME IInv, Upheld, Busy, job.at = "uncertain", Fault \/ Calm,
         NEW s \in ProviderState, projection' = [projection EXCEPT ![job.o] = s],
         projection[job.o] \in Committed => s \in Committed,
         s \in Committed => projection[job.o] \in Committed,
         NEW label \in {"resolve", "reread"}, Go(label),
         UNCHANGED <<ledger, durable, loop, client, objective, guard, external>>
  PROVE  IInv'
<1>1. /\ stored[job.o].state \in Dispatched /\ job.o \in Objective /\ WorldType
      /\ projection[job.o] \in Committed => provider[job.o] = "RECORDED"
  BY UnknownFacts
<1>2. job'.at = label /\ job'.o = job.o
  BY GoFacts DEF Label
<1>3. JobInv'
  BY <1>2, BusyFacts DEF JobInv, durable, external
<1>4. WorldType'
  BY <1>1, ProjectedType
<1>5. Standing
  BY <1>1, ProjectedStands DEF durable, Dispatched
<1>6. UNCHANGED <<round, sweep, owed>> /\ pending' \in SUBSET Objective
  BY BusyFacts DEF loop, LoopType
<1> QED
  BY <1>3, <1>4, <1>5, <1>6, GoKeeps DEF Label, Unsaved

LEMMA PersistUncertainKeeps == ASSUME IInv, Upheld, PersistUncertain PROVE IInv'
<1>1. Busy /\ job.at = "uncertain" /\ (Fault \/ Calm)
  BY DEF PersistUncertain, Busy, At
<1>2. /\ job.o \in Objective /\ projection[job.o] \in ProviderState
      /\ projection = [projection EXCEPT ![job.o] = projection[job.o]]
  BY <1>1, BusyFacts DEF WorldType
<1>3. CASE /\ projection[job.o] \notin Unresolvable
           /\ Reaches(job.o, Unresolved(projection[job.o])) /\ Go("resolve")
  <2>1. /\ Unresolved(projection[job.o]) \in ProviderState
        /\ projection[job.o] \in Committed <=> Unresolved(projection[job.o]) \in Committed
    BY <1>2, <1>3 DEF Unresolved, Unresolvable, ProviderState, Committed
  <2> QED
    BY <1>1, <1>3, <2>1, UncertainKeeps DEF PersistUncertain, Reaches
<1>4. CASE Go("reread") /\ UNCHANGED projection
  BY <1>1, <1>2, <1>4, UncertainKeeps DEF PersistUncertain
<1>5. CASE Advance(job.o, UncertainOf(projection[job.o])) /\ Go("reread")
  <2>1. PICK s \in UncertainOf(projection[job.o]) \cup {projection[job.o]} :
          projection' = [projection EXCEPT ![job.o] = s]
    BY <1>5 DEF Advance
  <2>2. s \in ProviderState /\ (projection[job.o] \in Committed <=> s \in Committed)
    BY <1>2, <2>1 DEF UncertainOf, ChainOf, ProviderState, Committed
  <2> QED
    BY <1>1, <1>5, <2>1, <2>2, UncertainKeeps DEF PersistUncertain
<1> QED
  BY <1>3, <1>4, <1>5 DEF PersistUncertain

LEMMA RereadKeeps == ASSUME IInv, Upheld, Reread PROVE IInv'
<1>1. /\ Busy /\ job.at = "reread" /\ (Fault \/ Calm)
      /\ UNCHANGED <<service, external>>
  BY DEF Reread, Busy, At
<1>2. /\ ledger[job.o].state # "NONE" /\ stored[job.o].state \in Dispatched
      /\ ledger[job.o].stamp = stored[job.o].stamp /\ job.o \in Objective
      /\ Len(ledger[job.o].log.tries) > 0
  BY <1>1, UnknownFacts, BusyFacts DEF JobInv
<1>3. ASSUME NEW finding \in Finding, NEW state \in EffectState
      PROVE  /\ Classified(finding, state) \in Record
             /\ Dated(Classified(finding, state))
             /\ Classified(finding, state).state = state
             /\ Classified(finding, state).stamp = ledger[job.o].stamp
  BY <1>1, <1>2, ClassifiedFacts
<1>4. CASE /\ Calm /\ projection[job.o] \in Committed
           /\ Save(job.o, Classified("settled", "RESOLVED"), To("guard"))
  BY <1>1, <1>3, <1>4, SettleKeeps DEF Finding, EffectState
<1>5. CASE Save(job.o, Classified("unrecorded", "RECONCILING"), Ready)
  <2>1. /\ Classified("unrecorded", "RECONCILING") \in Record
        /\ Dated(Classified("unrecorded", "RECONCILING"))
        /\ Classified("unrecorded", "RECONCILING").state = "RECONCILING"
        /\ Classified("unrecorded", "RECONCILING").stamp = ledger[job.o].stamp
    BY <1>3 DEF Finding, EffectState
  <2>2. MayFollow(job.o, Classified("unrecorded", "RECONCILING"))
    BY <1>2, <2>1, DispatchedFollows DEF Dispatched
  <2>3. Saved(job.o, Classified("unrecorded", "RECONCILING"), Ready) => (Busy => JobInv)'
    BY DEF Saved, Busy, Ready
  <2> QED
    BY <1>1, <1>2, <1>5, <2>1, <2>2, <2>3, CheckpointKeeps DEF Ready, Unsaved
<1> QED
  BY <1>4, <1>5 DEF Reread

LEMMA ResolveKeeps == ASSUME IInv, Upheld, Resolve PROVE IInv'
<1>1. Busy /\ job.at = "resolve" /\ (Fault \/ Calm)
  BY DEF Resolve, Busy, At
<1>2. /\ ledger[job.o].state # "NONE" /\ stored[job.o].state \in Dispatched
      /\ stored[job.o].state \in Unknown
      /\ ledger[job.o].stamp = stored[job.o].stamp /\ job.o \in Objective
      /\ Len(ledger[job.o].log.tries) > 0 /\ WorldType /\ provider[job.o] = "RECORDED"
  BY <1>1, UnknownFacts, BusyFacts DEF JobInv
<1>3. /\ "RESOLVED_SUCCEEDED" \in Committed \cap ProviderState
      /\ stored[job.o].state # "REJECTED"
  BY <1>2 DEF Committed, ProviderState, Dispatched
<1>4. CASE /\ Reaches(job.o, "RESOLVED_SUCCEEDED")
           /\ Keep(Classified("settled", "RESOLVED"))
           /\ Go("resolved")
           /\ UNCHANGED <<durable, loop, client>>
  <2>1. projection' = [projection EXCEPT ![job.o] = "RESOLVED_SUCCEEDED"]
    BY <1>4 DEF Reaches
  <2>2. /\ Classified("settled", "RESOLVED") \in Record
        /\ Dated(Classified("settled", "RESOLVED"))
        /\ Classified("settled", "RESOLVED").state = "RESOLVED"
        /\ Classified("settled", "RESOLVED").stamp = ledger[job.o].stamp
    BY <1>1, <1>2, ClassifiedFacts DEF Finding, EffectState
  <2>3. ledger'[job.o] = Classified("settled", "RESOLVED")
    BY <1>1, <1>4, <2>2, KeepFacts
  <2>4. job'.at = "resolved" /\ job'.o = job.o
    BY <1>1, <1>4, GoFacts DEF Label
  <2>5. projection'[job.o] \in Committed
    BY <1>2, <1>3, <2>1 DEF WorldType
  <2>6. JobInv'
    BY <1>2, <1>4, <2>2, <2>3, <2>4, <2>5 DEF JobInv, durable, external, Resolve
  <2>7. WorldType'
    BY <1>1, <1>2, <1>3, <2>1, ProjectedType DEF Resolve
  <2>8. Standing
    BY <1>2, <1>3, <1>4, <2>1, ProjectedStands DEF Resolve, durable
  <2> QED
    BY <1>1, <1>4, <2>2, <2>6, <2>7, <2>8, KeepKeeps DEF Label, Unsaved
<1>5. CASE Restart /\ UNCHANGED projection
  <2>1. WorldType' /\ Standing
    BY <1>1, <1>5, WorldStays, NothingStands DEF Resolve, Restart, RestartFrom, service
  <2> QED
    BY <1>5, <2>1, RestartedKeeps
<1>6. CASE /\ Advance(job.o, {projection[job.o], "RESOLVED_SUCCEEDED"})
           /\ Restart
  <2>1. PICK s \in {projection[job.o], "RESOLVED_SUCCEEDED"} :
          projection' = [projection EXCEPT ![job.o] = s]
    BY <1>6 DEF Advance
  <2>2. s \in ProviderState
    BY <1>2, <1>3, <2>1 DEF WorldType
  <2>3. WorldType'
    BY <1>1, <1>2, <2>1, <2>2, ProjectedType DEF Resolve
  <2>4. Standing
    BY <1>2, <1>3, <1>6, <2>1, ProjectedStands DEF Resolve, Restart, RestartFrom
  <2> QED
    BY <1>6, <2>3, <2>4, RestartedKeeps
<1> QED
  BY <1>4, <1>5, <1>6 DEF Resolve

LEMMA GuardResolvedKeeps == ASSUME IInv, Upheld, GuardResolved PROVE IInv'
<1>1. Busy /\ job.at = "resolved"
  BY DEF GuardResolved, Busy, At
<1>2. job.o \in Objective /\ JobInv
  BY <1>1, BusyFacts
<1>3. /\ guard' \in {guard, [guard EXCEPT ![job.o] = GuardReady(job.o)]}
      /\ pending' \in SUBSET Objective /\ WorldType'
  BY <1>2, WriteGuardFacts DEF GuardResolved
<1>4. Standing
  BY <1>2, <1>3, VouchedStands DEF GuardResolved, durable
<1>5. job'.at = "settle" /\ job'.o = job.o
  BY <1>1, GoFacts DEF GuardResolved, Label
<1>6. JobInv'
  BY <1>1, <1>2, <1>5 DEF JobInv, GuardResolved, durable, external
<1> QED
  BY <1>1, <1>3, <1>4, <1>6, GoKeeps DEF GuardResolved, Label, Unsaved

LEMMA StoreResolutionKeeps == ASSUME IInv, Upheld, StoreResolution PROVE IInv'
<1>1. Busy /\ job.at = "settle" /\ Calm
  BY DEF StoreResolution, Busy, At, Calm
<1>2. /\ ledger[job.o].state = "RESOLVED" /\ stored[job.o].state \in Unknown
      /\ projection[job.o] \in Committed /\ job.o \in Objective
      /\ ledger[job.o].stamp = stored[job.o].stamp
  BY <1>1, BusyFacts DEF JobInv
<1>3. MayFollow(job.o, ledger[job.o])
  BY <1>2, SuccessFollows DEF Unknown, Dispatched, Succeeded
<1> QED
  BY <1>1, <1>3, StoreKeeps DEF StoreResolution

-----------------------------------------------------------------------------
(* The runtime, the scheduler and the broker *)

\* What the loop of the effects service knows, when it is left alone.
LEMMA LoopStays ==
  ASSUME IInv, UNCHANGED <<ledger, loop, job>>
  PROVE  LoopType' /\ LoopInv'
  BY TypeParts DEF IInv, LoopType, LoopInv, Unsettled, Busy, loop

\* A step of the runtime that leaves the objectives alone.
LEMMA ClientKeeps ==
  ASSUME IInv, Upheld, Fault \/ Calm,
         UNCHANGED <<ledger, durable, loop, service, external>>,
         job' \in Job \cup {Ready}, job'.at = job.at,
         Busy => job'.o = job.o /\ job'.stamp = job.stamp /\ job'.code = job.code,
         ClientType', (inbox # Nothing => inbox.stamp <= clock)',
         runtime'.at = "tick" => runtime' = runtime \/ GuardReady(runtime'.o)
  PROVE  IInv'
<1>1. WorldType' /\ Standing
  BY WorldStays, NothingStands DEF durable
<1>2. LoopType' /\ LoopInv'
  BY TypeParts DEF IInv, LoopType, LoopInv, Unsettled, Busy, loop
<1> QED
  BY <1>1, <1>2, BesideKeeps DEF service

LEMMA ResumeKeeps ==
  ASSUME IInv, Upheld, NEW o \in Objective, Resume(o)
  PROVE  IInv'
<1>1. ClientType' /\ (inbox # Nothing => inbox.stamp <= clock)'
  BY TypeParts, StampsStay DEF IInv, StampInv, ClientType, Resume
<1>2. runtime'.at # "tick" /\ LoopType' /\ LoopInv'
  BY LoopStays DEF Resume
<1> QED
  BY <1>1, <1>2, LoopKeeps DEF Resume, Calm

LEMMA SubmitKeeps ==
  ASSUME IInv, Upheld, NEW o \in Objective, Submit(o)
  PROVE  IInv'
<1>1. ClientType' /\ (inbox # Nothing => inbox.stamp <= clock)'
  BY TypeParts, StampsStay, StampsAreTimes DEF IInv, StampInv, ClientType, Submit
<1>2. runtime'.at # "tick" /\ LoopType' /\ LoopInv' /\ (Fault \/ Calm)
  BY LoopStays DEF Submit
<1> QED
  BY <1>1, <1>2, LoopKeeps DEF Submit

LEMMA LeaveResumeKeeps == ASSUME IInv, Upheld, LeaveResume PROVE IInv'
<1>1. ClientType /\ ClientType' /\ (inbox # Nothing => inbox.stamp <= clock)'
  BY TypeParts, StampsStay DEF IInv, StampInv, ClientType, LeaveResume, Idle
<1>2. LoopType' /\ LoopInv'
  BY LoopStays DEF LeaveResume
<1>3. runtime'.at = "tick" => GuardReady(runtime'.o)
  BY <1>1 DEF IInv, EffectInv, Guarded, LeaveResume, ClientType, Idle
<1> QED
  BY <1>1, <1>2, <1>3, LoopKeeps DEF LeaveResume, Calm

LEMMA GiveUpKeeps == ASSUME IInv, Upheld, GiveUp PROVE IInv'
<1>1. JobType /\ ClientType
  BY TypeParts DEF IInv
<1>2. ClientType' /\ (inbox # Nothing => inbox.stamp <= clock)'
  BY <1>1, StampsStay, BrokerAssumption
  DEF IInv, StampInv, ClientType, GiveUp, Idle, A!ConstantsAssumption
<1>3. job' = job \/ job' = [job EXCEPT !.heard = FALSE]
  BY DEF GiveUp
<1>4. /\ job' \in Job \cup {Ready} /\ job'.at = job.at
      /\ Busy => job'.o = job.o /\ job'.stamp = job.stamp /\ job'.code = job.code
  BY <1>1, <1>3 DEF JobType, Job, Ready, Busy
<1>5. Fault /\ runtime'.at # "tick"
  BY DEF GiveUp, Idle
<1> QED
  BY <1>2, <1>4, <1>5, ClientKeeps DEF GiveUp

LEMMA CancelDeniedKeeps == ASSUME IInv, Upheld, CancelDenied PROVE IInv'
<1>1. runtime.o \in Objective /\ WorldType /\ JobType
  BY TypeParts DEF IInv, CancelDenied, ClientType, Idle
<1>2. ClientType' /\ (inbox # Nothing => inbox.stamp <= clock)' /\ runtime'.at # "tick"
  BY TypeParts, StampsStay DEF IInv, StampInv, ClientType, CancelDenied, Idle
<1>3. \/ objective' = objective
      \/ objective' = [objective EXCEPT ![runtime.o] = "CANCELLED"]
  BY <1>1 DEF CancelDenied, WorldType
<1>4. WorldType'
  BY <1>1, <1>3, EffectAssumption DEF CancelDenied, WorldType, Fault, Calm, external
<1>5. Standing
  BY <1>1, <1>3, VouchedStands DEF CancelDenied, durable
<1>6. LoopType' /\ LoopInv'
  BY LoopStays DEF CancelDenied
<1> QED
  BY <1>1, <1>2, <1>4, <1>5, <1>6, BesideKeeps DEF CancelDenied, JobType

\* Completing an objective, by whoever finds that it can be completed.
LEMMA CompletionKeeps ==
  ASSUME IInv, Upheld, NEW o \in Objective, Fault \/ Calm,
         \/ objective' = objective
         \/ Completable(o) /\ objective' = [objective EXCEPT ![o] = "SATISFIED"],
         UNCHANGED <<ledger, durable, loop, job, projection, guard, external>>,
         ClientType', (inbox # Nothing => inbox.stamp <= clock)',
         runtime' = runtime \/ runtime'.at # "tick"
  PROVE  IInv'
<1>1. WorldType /\ JobType
  BY TypeParts DEF IInv
<1>2. WorldType'
  BY <1>1, EffectAssumption DEF WorldType, Fault, Calm, external
<1>3. Standing
  BY <1>1, VouchedStands DEF durable, Completable, GuardReady
<1>4. LoopType' /\ LoopInv'
  BY LoopStays
<1> QED
  BY <1>1, <1>2, <1>3, <1>4, BesideKeeps DEF JobType

LEMMA TickSchedulerKeeps ==
  ASSUME IInv, Upheld, NEW o \in Objective, TickScheduler(o)
  PROVE  IInv'
  BY ClientsStay, CompletionKeeps DEF TickScheduler, Calm

LEMMA TickAnsweredKeeps == ASSUME IInv, Upheld, TickAnswered PROVE IInv'
<1>1. runtime.o \in Objective /\ WorldType
  BY TypeParts DEF IInv, TickAnswered, ClientType, Idle
<1>2. ClientType' /\ (inbox # Nothing => inbox.stamp <= clock)' /\ runtime'.at # "tick"
  BY TypeParts, StampsStay DEF IInv, StampInv, ClientType, TickAnswered, Idle
<1>3. \/ objective' = objective
      \/ /\ Completable(runtime.o)
         /\ objective' = [objective EXCEPT ![runtime.o] = "SATISFIED"]
  BY <1>1 DEF TickAnswered, WorldType
<1> QED
  BY <1>1, <1>2, <1>3, CompletionKeeps DEF TickAnswered

\* Nothing moves but the broker.
LEMMA BrokerKeeps ==
  ASSUME IInv, Upheld,
         UNCHANGED <<ledger, durable, loop, job, client, service, external, faults>>
  PROVE  IInv'
  BY ClientsStay, LoopStays, LoopKeeps DEF Calm

LEMMA CrashKeeps == ASSUME IInv, Upheld, Crash PROVE IInv'
  BY WorldStays, NothingStands, RestartedKeeps DEF Crash, Restart, RestartFrom

-----------------------------------------------------------------------------
(* Every step *)

LEMMA StepKeeps ==
  ASSUME IInv, Upheld, [Next]_vars
  PROVE  IInv'
<1>1. CASE Submission
  BY <1>1, AcceptKeeps, AdmitKeeps, PrepareKeeps, ReserveKeeps, ReserveFailsKeeps,
     CheckWindowKeeps, ExpireKeeps, PersistRejectionKeeps, StoreRejectionKeeps,
     CommitKeeps, ReplyKeeps
  DEF Submission
<1>2. CASE Execution
  BY <1>2, DispatchKeeps, DispatchChainKeeps, ExecuteProviderKeeps,
     ObserveProviderKeeps, TransportLostKeeps, StoreResponseKeeps, StoreObservationKeeps,
     GuardObjectiveKeeps
  DEF Execution
<1>3. CASE Recovery
  BY <1>3, SweepKeeps, VisitKeeps, RewriteGuardKeeps, InspectReservedKeeps,
     StatusReservedKeeps, AbortReservedKeeps
  DEF Recovery
<1>4. CASE Reconciliation
  BY <1>4, ProbeKeeps, ProbeFailsKeeps, PersistUncertainKeeps, RereadKeeps,
     ResolveKeeps, GuardResolvedKeeps, StoreResolutionKeeps
  DEF Reconciliation
<1>5. CASE Runtime
  BY <1>5, ResumeKeeps, SubmitKeeps, LeaveResumeKeeps, GiveUpKeeps,
     CancelDeniedKeeps, TickAnsweredKeeps
  DEF Runtime
<1>6. CASE Scheduler \/ Crash
  BY <1>6, TickSchedulerKeeps, CrashKeeps DEF Scheduler
<1>7. CASE Broker \/ Tick \/ UNCHANGED vars
  BY <1>7, BrokerKeeps DEF Broker, Tick, vars
<1> QED
  BY <1>1, <1>2, <1>3, <1>4, <1>5, <1>6, <1>7 DEF Next, Effects

-----------------------------------------------------------------------------
(* How the records move *)

\* A record that replaces the durable one of its effect is a later one.
Advances(before, after) ==
  /\ \/ before.state = "NONE" /\ after.state = "RESERVED"
     \/ before.state = "RESERVED" /\ after.state \in {"EXECUTING", "REJECTED"}
     \/ before.state \in Dispatched /\ after.state \in Unknown \cup Succeeded
  /\ before.state # "NONE" => after.stamp = before.stamp

\* The durable record of an effect stays, or is replaced by a later one.
Checkpointed(o) ==
  \/ UNCHANGED stored
  \/ \E record \in Record :
       /\ Advances(stored[o], record)
       /\ stored' = [stored EXCEPT ![o] = record]

\* What a step may do to records, world and objectives: nothing, one
\* checkpoint, one execution of what stays dispatched, or one objective.
Progress ==
  \/ UNCHANGED <<stored, world, objective>>
  \/ UNCHANGED <<world, objective>> /\ \E o \in Objective : Checkpointed(o)
  \/ /\ UNCHANGED objective
     /\ \E o \in Objective, s \in {"IDLE", "INTENT", "APPLIED", "RECORDED"} :
          /\ Execute(o, s) /\ Checkpointed(o)
          /\ stored[o].state \in Dispatched /\ stored'[o].state \in Dispatched
  \/ /\ UNCHANGED <<stored, world>>
     /\ \E o \in Objective :
          \/ objective[o] = "PROPOSED" /\ objective' = [objective EXCEPT ![o] = "CANCELLED"]
          \/ GuardReady(o) /\ objective' = [objective EXCEPT ![o] = "SATISFIED"]

\* A checkpoint of the record in work is either the same state or a later one.
LEMMA SaveAdvances ==
  ASSUME IInv, Busy, NEW record \in Record, NEW next, Save(job.o, record, next),
         record.state = stored[job.o].state \/ Advances(stored[job.o], record)
  PROVE  Checkpointed(job.o)
  BY DEF Save, Restart, RestartFrom, Checkpointed

LEMMA SubmissionProgress ==
  ASSUME IInv, Submission
  PROVE  Progress
<1>1. CASE Accept \/ Admit \/ Prepare \/ CheckWindow \/ Expire \/ Commit
  BY <1>1 DEF Accept, Admit, Prepare, CheckWindow, Expire, Commit, Progress,
              durable, service, external
<1>2. CASE Reply \/ PersistRejection
  BY <1>2 DEF Reply, PersistRejection, Restart, RestartFrom, Progress,
              durable, service, external
<1>3. CASE Reserve
  <2>1. Busy /\ job.at = "reserve" /\ job.at \notin Unsaved
    BY <1>3 DEF Reserve, Busy, At, Unsaved
  <2>2. /\ NewRecord \in Record /\ NewRecord.state = "RESERVED"
        /\ ledger[job.o] \in Record /\ ledger[job.o].state = stored[job.o].state
        /\ job.o \in Objective
    BY <2>1, NewRecordFacts, BusyFacts
  <2>3. Checkpointed(job.o)
    <3>1. CASE ledger[job.o].state = "NONE" /\ Save(job.o, NewRecord, To("bound"))
      BY <2>1, <2>2, <3>1, SaveAdvances DEF Advances
    <3>2. CASE \E next : Save(job.o, ledger[job.o], next)
      BY <2>1, <2>2, <3>2, SaveAdvances
    <3> QED
      BY <1>3, <3>1, <3>2 DEF Reserve
  <2> QED
    BY <1>3, <2>2, <2>3 DEF Reserve, Progress, service, external
<1>4. CASE ReserveFails
  <2>1. Busy /\ job.at = "reserve" /\ job.at \notin Unsaved
    BY <1>4 DEF ReserveFails, Busy, At, Unsaved
  <2>2. /\ NewRecord \in Record /\ NewRecord.state = "RESERVED"
        /\ ledger[job.o].state = stored[job.o].state /\ job.o \in Objective
    BY <2>1, NewRecordFacts, BusyFacts
  <2>3. Checkpointed(job.o)
    BY <1>4, <2>2 DEF ReserveFails, RestartFrom, Checkpointed, Advances
  <2> QED
    BY <1>4, <2>2, <2>3 DEF ReserveFails, Progress, service, external
<1>5. CASE StoreRejection
  <2>1. Busy /\ job.at = "rejected"
    BY <1>5 DEF StoreRejection, Busy, At
  <2>2. /\ ledger[job.o] \in Record /\ job.o \in Objective
        /\ Advances(stored[job.o], ledger[job.o])
    BY <2>1, BusyFacts DEF JobInv, Advances
  <2>3. Checkpointed(job.o)
    BY <1>5, <2>1, <2>2, SaveAdvances DEF StoreRejection
  <2> QED
    BY <1>5, <2>2, <2>3 DEF StoreRejection, Progress, service, external
<1> QED
  BY <1>1, <1>2, <1>3, <1>4, <1>5 DEF Submission

LEMMA ExecutionProgress ==
  ASSUME IInv, Execution
  PROVE  Progress
<1>1. CASE DispatchChain \/ ObserveProvider \/ GuardObjective
  BY <1>1 DEF DispatchChain, ObserveProvider, GuardObjective, Progress,
              durable, external
<1>2. CASE ExecuteProvider
  <2>1. Busy /\ job.at = "execute" /\ job.at \notin Unsaved
    BY <1>2 DEF ExecuteProvider, Busy, At, Unsaved
  <2>2. stored[job.o].state \in Dispatched /\ job.o \in Objective
    BY <2>1, BusyFacts DEF JobInv, Dispatched
  <2>3. PICK s : Execute(job.o, s)
    BY <1>2 DEF ExecuteProvider
  <2>4. s \in {"IDLE", "INTENT", "APPLIED", "RECORDED"}
    BY <2>1, <2>3, BusyFacts DEF Execute, Stages, WorldType
  <2>5. UNCHANGED <<stored, objective>>
    BY <1>2 DEF ExecuteProvider, durable, service
  <2> QED
    BY <2>2, <2>3, <2>4, <2>5 DEF Progress, Checkpointed
<1>3. CASE Dispatch
  <2>1. Busy /\ job.at = "dispatch" /\ job.at \notin Unsaved
    BY <1>3 DEF Dispatch, Busy, At, Unsaved
  <2>2. /\ ledger[job.o].state = "RESERVED" /\ stored[job.o].state = "RESERVED"
        /\ ledger[job.o].stamp = stored[job.o].stamp /\ job.o \in Objective
    BY <2>1, BusyFacts DEF JobInv
  <2>3. Become("EXECUTING") \in Record /\ Advances(stored[job.o], Become("EXECUTING"))
    BY <2>1, <2>2, BecomeFacts DEF Advances, EffectState
  <2>4. Checkpointed(job.o)
    BY <1>3, <2>1, <2>3, SaveAdvances DEF Dispatch
  <2> QED
    BY <1>3, <2>2, <2>4 DEF Dispatch, Progress, service, external
<1>4. CASE TransportLost
  <2> DEFINE record == [Become("UNKNOWN") EXCEPT !.log.call = "lost"]
  <2>1. Busy /\ job.at = "lost" /\ job.at \notin Unsaved
    BY <1>4 DEF TransportLost, Busy, At, Unsaved
  <2>2. /\ ledger[job.o].state = "EXECUTING" /\ stored[job.o].state = "EXECUTING"
        /\ ledger[job.o].stamp = stored[job.o].stamp /\ job.o \in Objective
    BY <2>1, BusyFacts DEF JobInv
  <2>3. record \in Record /\ record.state = "UNKNOWN" /\ record.stamp = ledger[job.o].stamp
    BY <2>1, <2>2, BecomeFacts DEF EffectState, Record, Attempts, Response
  <2>4. Advances(stored[job.o], record)
    BY <2>2, <2>3 DEF Advances, Dispatched, Unknown
  <2>5. Checkpointed(job.o)
    BY <1>4, <2>1, <2>3, <2>4, SaveAdvances DEF TransportLost
  <2> QED
    BY <1>4, <2>2, <2>5 DEF TransportLost, Progress, service, external
<1>5. CASE StoreResponse
  <2> DEFINE record == [ledger[job.o] EXCEPT !.log.call = "answered"]
  <2>1. Busy /\ job.at = "observed" /\ job.at \notin Unsaved
    BY <1>5 DEF StoreResponse, Busy, At, Unsaved
  <2>2. /\ ledger[job.o] \in Record /\ ledger[job.o].state = stored[job.o].state
        /\ job.o \in Objective
    BY <2>1, BusyFacts
  <2>3. record \in Record /\ record.state = stored[job.o].state
    BY <2>2 DEF Record, Attempts, Response
  <2>4. Checkpointed(job.o)
    BY <1>5, <2>1, <2>3, SaveAdvances DEF StoreResponse
  <2> QED
    BY <1>5, <2>2, <2>4 DEF StoreResponse, Progress, service, external
<1>6. CASE StoreObservation
  <2>1. Busy /\ job.at = "classify" /\ job.at \notin Unsaved
    BY <1>6 DEF StoreObservation, Busy, At, Unsaved
  <2>2. /\ ledger[job.o].state = "EXECUTING" /\ stored[job.o].state = "EXECUTING"
        /\ ledger[job.o].stamp = stored[job.o].stamp /\ job.o \in Objective
    BY <2>1, BusyFacts DEF JobInv
  <2>3. /\ Become("OBSERVED") \in Record
        /\ Advances(stored[job.o], Become("OBSERVED"))
    BY <2>1, <2>2, BecomeFacts DEF Advances, EffectState, Dispatched, Succeeded
  <2>4. Checkpointed(job.o)
    BY <1>6, <2>1, <2>3, SaveAdvances DEF StoreObservation
  <2> QED
    BY <1>6, <2>2, <2>4 DEF StoreObservation, Progress, service, external
<1> QED
  BY <1>1, <1>2, <1>3, <1>4, <1>5, <1>6 DEF Execution

LEMMA RecoveryProgress ==
  ASSUME IInv, Recovery
  PROVE  Progress
  BY DEF Recovery, StartSweep, EndSweep, EndRound, Visit, RewriteGuard, InspectReserved,
         StatusReserved, AbortReserved, Progress, durable, service, external

\* An unknown outcome that is settled.
LEMMA SettleProgress ==
  ASSUME IInv, Busy, job.at \in {"probe", "reread"},
         NEW record \in Record, record.state = "RESOLVED",
         record.stamp = ledger[job.o].stamp, Save(job.o, record, To("guard")),
         UNCHANGED <<service, external>>
  PROVE  Progress
<1>1. /\ stored[job.o].state \in Dispatched /\ job.o \in Objective
      /\ ledger[job.o].stamp = stored[job.o].stamp
  BY UnknownFacts
<1>2. Advances(stored[job.o], record)
  BY <1>1 DEF Advances, Dispatched, Succeeded
<1>3. Checkpointed(job.o)
  BY <1>2, SaveAdvances
<1> QED
  BY <1>1, <1>3 DEF Progress, service, external

LEMMA ReconciliationProgress ==
  ASSUME IInv, Reconciliation
  PROVE  Progress
<1>1. CASE PersistUncertain \/ ProbeFails \/ Resolve \/ GuardResolved
  BY <1>1 DEF PersistUncertain, ProbeFails, Resolve, GuardResolved, Restart, RestartFrom,
              Progress, durable, service, external
<1>2. CASE StoreResolution
  <2>1. Busy /\ job.at = "settle"
    BY <1>2 DEF StoreResolution, Busy, At
  <2>2. /\ ledger[job.o] \in Record /\ job.o \in Objective
        /\ Advances(stored[job.o], ledger[job.o])
    BY <2>1, BusyFacts DEF JobInv, Advances, Dispatched, Unknown, Succeeded
  <2>3. Checkpointed(job.o)
    BY <1>2, <2>1, <2>2, SaveAdvances DEF StoreResolution
  <2> QED
    BY <1>2, <2>2, <2>3 DEF StoreResolution, Progress, service, external
<1>3. CASE Reread
  <2>1. Busy /\ job.at = "reread" /\ UNCHANGED <<service, external>>
    BY <1>3 DEF Reread, Busy, At
  <2>2. /\ stored[job.o].state \in Dispatched /\ job.o \in Objective
        /\ ledger[job.o].state # "NONE" /\ Len(ledger[job.o].log.tries) > 0
        /\ ledger[job.o].stamp = stored[job.o].stamp
    BY <2>1, UnknownFacts, BusyFacts DEF JobInv
  <2>3. ASSUME NEW finding \in Finding, NEW state \in EffectState
        PROVE  /\ Classified(finding, state) \in Record
               /\ Classified(finding, state).state = state
               /\ Classified(finding, state).stamp = ledger[job.o].stamp
    BY <2>1, <2>2, ClassifiedFacts
  <2>4. CASE Save(job.o, Classified("settled", "RESOLVED"), To("guard"))
    BY <2>1, <2>3, <2>4, SettleProgress DEF Finding, EffectState
  <2>5. CASE Save(job.o, Classified("unrecorded", "RECONCILING"), Ready)
    <3> DEFINE record == Classified("unrecorded", "RECONCILING")
    <3>1. /\ record \in Record /\ record.state = "RECONCILING"
          /\ record.stamp = ledger[job.o].stamp
      BY <2>3 DEF Finding, EffectState
    <3> HIDE DEF record
    <3>2. Advances(stored[job.o], record)
      BY <2>2, <3>1 DEF Advances, Dispatched, Unknown
    <3>3. Checkpointed(job.o)
      BY <2>1, <2>5, <3>1, <3>2, SaveAdvances DEF record
    <3> QED
      BY <2>1, <2>2, <3>3 DEF Progress, service, external
  <2> QED
    BY <1>3, <2>4, <2>5 DEF Reread
<1>4. CASE Probe
  <2>1. Busy /\ job.at = "probe" /\ UNCHANGED service
    BY <1>4 DEF Probe, Busy, At
  <2>2. /\ stored[job.o].state \in Dispatched /\ job.o \in Objective
        /\ ledger[job.o].state # "NONE" /\ Len(ledger[job.o].log.tries) < MaxTries
        /\ ledger[job.o].stamp = stored[job.o].stamp
        /\ RecordsType /\ WorldType
    BY <2>1, UnknownFacts, BusyFacts DEF JobInv
  <2>3. ASSUME NEW finding \in Finding, NEW state \in EffectState
        PROVE  /\ Attempt(finding, state) \in Record
               /\ Attempt(finding, state).state = state
               /\ Attempt(finding, state).stamp = ledger[job.o].stamp
    BY <2>1, <2>2, AttemptFacts
  <2>4. ASSUME NEW s, Execute(job.o, s), Checkpointed(job.o),
               stored'[job.o].state \in Dispatched
        PROVE  Progress
    <3>1. s \in {"IDLE", "INTENT", "APPLIED", "RECORDED"}
      BY <2>2, <2>4 DEF Execute, Stages, WorldType
    <3> QED
      BY <2>1, <2>2, <2>4, <3>1 DEF Progress, service
  <2>5. CASE Save(job.o, Attempt("settled", "RESOLVED"), To("guard")) /\ UNCHANGED external
    BY <2>1, <2>3, <2>5, SettleProgress DEF Finding, EffectState
  <2>6. CASE Execute(job.o, "RECORDED") /\ UNCHANGED durable
    BY <2>2, <2>4, <2>6 DEF durable, Checkpointed
  <2>7. CASE /\ \E s \in Stages(provider[job.o]) : Execute(job.o, s)
             /\ Save(job.o, Attempt("unobserved", "RECONCILING"), Ready)
    <3> DEFINE record == Attempt("unobserved", "RECONCILING")
    <3>1. /\ record \in Record /\ record.state = "RECONCILING"
          /\ record.stamp = ledger[job.o].stamp
      BY <2>3 DEF Finding, EffectState
    <3> HIDE DEF record
    <3>2. Advances(stored[job.o], record)
      BY <2>2, <3>1 DEF Advances, Dispatched, Unknown
    <3>3. Checkpointed(job.o)
      BY <2>1, <2>7, <3>1, <3>2, SaveAdvances DEF record
    <3>4. stored' \in {stored, [stored EXCEPT ![job.o] = record]}
      BY <2>2, <2>7, <3>1, SaveCases DEF record
    <3>5. stored'[job.o].state \in Dispatched
      BY <2>2, <3>1, <3>4 DEF RecordsType, Dispatched
    <3> QED
      BY <2>4, <2>7, <3>3, <3>5
  <2> QED
    BY <1>4, <2>5, <2>6, <2>7 DEF Probe
<1> QED
  BY <1>1, <1>2, <1>3, <1>4 DEF Reconciliation

LEMMA ClientProgress ==
  ASSUME IInv, Runtime \/ Scheduler
  PROVE  Progress
<1>1. CASE \/ LeaveResume \/ GiveUp
           \/ \E o \in Objective : Resume(o) \/ Submit(o)
  BY <1>1 DEF LeaveResume, GiveUp, Resume, Submit, Progress, durable, service, external
<1>2. CASE CancelDenied
  <2>1. runtime.o \in Objective /\ WorldType
    BY <1>2, TypeParts DEF IInv, CancelDenied, ClientType, Idle
  <2>2. \/ objective' = objective
        \/ /\ objective[runtime.o] = "PROPOSED"
           /\ objective' = [objective EXCEPT ![runtime.o] = "CANCELLED"]
    BY <1>2, <2>1 DEF CancelDenied, WorldType
  <2> QED
    BY <1>2, <2>1, <2>2 DEF CancelDenied, Progress, durable, external
<1>3. CASE TickAnswered
  <2>1. runtime.o \in Objective /\ WorldType
    BY <1>3, TypeParts DEF IInv, TickAnswered, ClientType, Idle
  <2>2. \/ objective' = objective
        \/ /\ Completable(runtime.o)
           /\ objective' = [objective EXCEPT ![runtime.o] = "SATISFIED"]
    BY <1>3, <2>1 DEF TickAnswered, WorldType
  <2> QED
    BY <1>3, <2>1, <2>2 DEF TickAnswered, Progress, Completable, GuardReady, durable, external
<1>4. CASE Scheduler
  BY <1>4 DEF Scheduler, TickScheduler, Progress, Completable, GuardReady, durable, external
<1> QED
  BY <1>1, <1>2, <1>3, <1>4 DEF Runtime

LEMMA StepProgress == IInv /\ [Next]_vars => Progress
<1>1. ASSUME Broker \/ Tick \/ Crash \/ UNCHANGED vars
      PROVE  Progress
  BY <1>1 DEF Broker, Tick, Crash, Restart, RestartFrom, vars, Progress,
              durable, service, external
<1> QED
  BY <1>1, SubmissionProgress, ExecutionProgress, RecoveryProgress,
     ReconciliationProgress, ClientProgress
  DEF Next, Effects

-----------------------------------------------------------------------------
(* The abstract effect *)

LEMMA PhaseFacts ==
  /\ PhaseOf("NONE") = "none" /\ PhaseOf("RESERVED") = "reserved"
  /\ PhaseOf("REJECTED") = "rejected"
  /\ \A state \in Succeeded : PhaseOf(state) = "succeeded"
  /\ \A state \in Dispatched : PhaseOf(state) = "dispatched"
  BY DEF PhaseOf, Succeeded, Dispatched

\* What the abstract effect is told, as functions of their own.
phaseMap == [o \in Objective |-> PhaseOf(stored[o].state)]
satisfiedMap == [o \in Objective |-> objective[o] = "SATISFIED"]

\* A checkpoint of a later record moves the phase by one step, or keeps it.
LEMMA CheckpointImplements ==
  ASSUME IInv, IInv', UNCHANGED <<world, objective>>, NEW o \in Objective, Checkpointed(o)
  PROVE  \/ UNCHANGED <<phaseMap, world, satisfiedMap>>
         \/ Effect!Reserve(o) \/ Effect!Reject(o) \/ Effect!Dispatch(o) \/ Effect!Confirm(o)
<1>1. /\ stored \in [Objective -> Record] /\ WorldType /\ EffectInv(o) /\ EffectInv(o)'
  BY TypeParts DEF IInv, TypeOK
<1>2. UNCHANGED satisfiedMap
  BY DEF satisfiedMap
<1>3. CASE UNCHANGED stored
  BY <1>2, <1>3 DEF phaseMap
<1>4. ASSUME NEW record \in Record, Advances(stored[o], record),
             stored' = [stored EXCEPT ![o] = record]
      PROVE  \/ UNCHANGED <<phaseMap, world, satisfiedMap>>
             \/ Effect!Reserve(o) \/ Effect!Reject(o) \/ Effect!Dispatch(o) \/ Effect!Confirm(o)
  <2> DEFINE to == PhaseOf(record.state)
  <2>1. phaseMap' = [phaseMap EXCEPT ![o] = to] /\ phaseMap[o] = PhaseOf(stored[o].state)
    BY <1>1, <1>4 DEF phaseMap
  <2>2. \/ phaseMap[o] = "none" /\ to = "reserved"
        \/ phaseMap[o] = "reserved" /\ to \in {"dispatched", "rejected"}
        \/ phaseMap[o] = "dispatched" /\ to = "dispatched"
        \/ phaseMap[o] = "dispatched" /\ to = "succeeded" /\ record.state \in Succeeded
    BY <1>4, <2>1, PhaseFacts DEF Advances, Dispatched, Unknown
  <2>3. CASE phaseMap[o] = to
    BY <1>2, <2>1, <2>3 DEF phaseMap
  <2>4. record.state \in Succeeded => world[o] = 1
    BY <1>1, <1>4 DEF EffectInv
  <2> QED
    BY <1>2, <2>1, <2>2, <2>3, <2>4
    DEF Effect!Reserve, Effect!Reject, Effect!Dispatch, Effect!Confirm, Effect!Move,
        phaseMap, satisfiedMap
<1> QED
  BY <1>3, <1>4 DEF Checkpointed

\* An execution makes the effect happen, or finds that it has.
LEMMA ExecutionImplements ==
  ASSUME IInv, UNCHANGED objective, NEW o \in Objective, NEW s, Execute(o, s),
         Checkpointed(o), stored[o].state \in Dispatched, stored'[o].state \in Dispatched
  PROVE  UNCHANGED <<phaseMap, world, satisfiedMap>> \/ Effect!Happen(o)
<1>1. /\ stored \in [Objective -> Record] /\ WorldType /\ EffectInv(o)
  BY TypeParts DEF IInv, TypeOK
<1>2. UNCHANGED satisfiedMap
  BY DEF satisfiedMap
<1>3. UNCHANGED phaseMap /\ phaseMap[o] = "dispatched"
  <2>1. \A x \in Objective : PhaseOf(stored'[x].state) = PhaseOf(stored[x].state)
    BY <1>1, PhaseFacts DEF Checkpointed
  <2> QED
    BY <2>1, PhaseFacts DEF phaseMap
<1>4. world' = world \/ (world[o] = 0 /\ world' = [world EXCEPT ![o] = 1])
  <2>1. CASE Applies(provider[o], s)
    <3>1. world[o] = 0 /\ world' = [world EXCEPT ![o] = world[o] + 1]
      BY <1>1, <2>1 DEF Execute, Applies, EffectInv
    <3>2. world[o] + 1 = 1
      BY <3>1
    <3> QED
      BY <3>1, <3>2
  <2>2. CASE ~Applies(provider[o], s)
    BY <2>2 DEF Execute
  <2> QED
    BY <2>1, <2>2
<1> QED
  BY <1>2, <1>3, <1>4 DEF Effect!Happen, phaseMap, satisfiedMap

LEMMA ObjectiveImplements ==
  ASSUME IInv, UNCHANGED <<stored, world>>, NEW o \in Objective,
         \/ objective[o] = "PROPOSED" /\ objective' = [objective EXCEPT ![o] = "CANCELLED"]
         \/ GuardReady(o) /\ objective' = [objective EXCEPT ![o] = "SATISFIED"]
  PROVE  UNCHANGED <<phaseMap, world, satisfiedMap>> \/ Effect!Satisfy(o)
<1>1. WorldType
  BY TypeParts DEF IInv
<1>2. UNCHANGED phaseMap
  BY DEF phaseMap
<1>3. CASE objective[o] = "PROPOSED" /\ objective' = [objective EXCEPT ![o] = "CANCELLED"]
  <2>1. UNCHANGED satisfiedMap
    BY <1>1, <1>3 DEF satisfiedMap, WorldType
  <2> QED
    BY <1>2, <2>1
<1>4. CASE GuardReady(o) /\ objective' = [objective EXCEPT ![o] = "SATISFIED"]
  <2>1. satisfiedMap' = [satisfiedMap EXCEPT ![o] = TRUE]
    BY <1>1, <1>4 DEF satisfiedMap, WorldType
  <2>2. phaseMap[o] = "succeeded"
    BY <1>4, PhaseFacts DEF GuardReady, phaseMap
  <2> QED
    BY <1>2, <2>1, <2>2 DEF Effect!Satisfy, phaseMap, satisfiedMap
<1> QED
  BY <1>3, <1>4

LEMMA StepImplements ==
  ASSUME IInv, IInv', [Next]_vars
  PROVE  [Effect!Next]_Effect!vars
<1>1. CASE UNCHANGED <<stored, world, objective>>
  BY <1>1 DEF Effect!vars
<1>2. ASSUME UNCHANGED <<phaseMap, world, satisfiedMap>>
      PROVE  UNCHANGED Effect!vars
  BY <1>2 DEF Effect!vars, phaseMap, satisfiedMap
<1>3. CASE UNCHANGED <<world, objective>> /\ \E o \in Objective : Checkpointed(o)
  BY <1>2, <1>3, CheckpointImplements DEF Effect!Next
<1>4. CASE /\ UNCHANGED objective
           /\ \E o \in Objective, s \in {"IDLE", "INTENT", "APPLIED", "RECORDED"} :
                /\ Execute(o, s) /\ Checkpointed(o)
                /\ stored[o].state \in Dispatched /\ stored'[o].state \in Dispatched
  BY <1>2, <1>4, ExecutionImplements DEF Effect!Next
<1>5. CASE /\ UNCHANGED <<stored, world>>
           /\ \E o \in Objective :
                \/ /\ objective[o] = "PROPOSED"
                   /\ objective' = [objective EXCEPT ![o] = "CANCELLED"]
                \/ GuardReady(o) /\ objective' = [objective EXCEPT ![o] = "SATISFIED"]
  BY <1>2, <1>5, ObjectiveImplements DEF Effect!Next
<1> QED
  BY <1>1, <1>3, <1>4, <1>5, StepProgress DEF Progress

=============================================================================
