------------------------------ MODULE Release ------------------------------
(***************************************************************************)
(* The release qualification (tools/qualify_v2_release.py, with the        *)
(* primitives of tools/qualification.py and the packet runner of           *)
(* tools/qualify_w_common.py).  A run executes the commands of each gate   *)
(* in order, attests them and writes the gate's report, then a summary of  *)
(* all reports.  A verifier reads the summary and judges every report      *)
(* again.  The source tree and the scope ledger may change at any time.    *)
(***************************************************************************)
EXTENDS Scope, SequencesExt

CONSTANTS
  Gates,        \* the gates in the order run_release takes them
  Packets,      \* gate -> the packets its commands run, one command each
  Flags,        \* gates whose metrics are booleans, TRUE being 1
  ServiceGates, \* gates that need a live service
  ZeroGates,    \* gates whose counts the completion predicates compare with zero
  BootLogs,     \* event logs that the VM tests of V-BOOT and V-ROLLBACK may leave
  Values,       \* values a packet may measure
  Work,         \* the work packets in contract order: gates and dependencies
  MaxRuns,      \* bound: runs of the release
  MaxCommands   \* bound: commands one packet runs

Named13 == {Gates[i] : i \in DOMAIN Gates}

ASSUME ReleaseAssumption ==
  /\ Gates \in Seq(Named13) /\ "V-SCOPE" \in Named13
  /\ \A g \in Named13 \ {"V-SCOPE", "V-BOOT", "V-ROLLBACK"} : Len(Packets[g]) \in Nat \ {0}
  /\ Flags \subseteq Named13 /\ ServiceGates \subseteq Named13 /\ ZeroGates \subseteq Named13
  /\ Values \subseteq Nat
  /\ MaxRuns \in Nat /\ MaxCommands \in Nat

VARIABLES
  runs,      \* runs started so far
  job,       \* where the present run is, with what it holds in memory
  packet,    \* the process of the command that is running
  retention, \* retention-ledger.json: the scope ledger its run saw
  reports,   \* gate -> its report file
  summary,   \* qualification-summary.json
  check,     \* where a verifier is, with the summary it read
  accepted   \* the summary a verifier accepted last, with the reports it judged

vars == <<scopeVars, runs, job, packet, retention, reports, summary, check, accepted>>
files == <<retention, reports, summary>>
release == <<runs, job, packet, files>>

Missing == [kind |-> "missing"]
Torn == [kind |-> "torn"]

-----------------------------------------------------------------------------
(* Metrics                                                                  *)

\* derive_metric over the observations of one metric.
Derive(op, vs) ==
  CASE op = "sum_values" -> FoldLeft(LAMBDA sum, v : sum + v, 0, vs)
    [] op = "all_values" -> IF \A i \in DOMAIN vs : vs[i] = 1 THEN 1 ELSE 0
    [] op = "any_values" -> IF \E i \in DOMAIN vs : vs[i] = 1 THEN 1 ELSE 0

Operation(gate, v) ==
  IF gate \notin Flags THEN "sum_values" ELSE IF v = 1 THEN "all_values" ELSE "any_values"

\* Mutant: the result of the first packet stands for all of them.
FirstPacket(gate, vs) == Len(vs) > 0

\* combine_packet_results: the packets of a gate claim the same metrics, and the claim
\* is what the observations of all of them give together.
Combined(gate, vs) ==
  /\ Len(vs) > 0
  /\ \A i \in DOMAIN vs : vs[i] = vs[1]
  /\ Derive(Operation(gate, vs[1]), vs) = vs[1]

\* boot_result and rollback_result, on the events of a VM test.
Booted(log) ==
  /\ Len(log) = 2
  /\ \A i \in 1..2 : log[i].health = "PRE_OPERATIONAL" /\ log[i].machine = log[1].machine
RolledBack(log) ==
  /\ Len(log) = 3
  /\ log[3].decision = "ROLLED_BACK"
  /\ log[3].generation = log[1].generation /\ log[2].generation # log[1].generation

Direct == {"V-SCOPE", "V-BOOT", "V-ROLLBACK"}

\* packet_results: a packet passes with its gates and what it depends on.
PassedWork(passed) ==
  LET after[n \in 0..Len(Work)] ==
        IF n = 0 THEN {}
        ELSE after[n - 1] \cup
             IF Work[n].gates \subseteq passed /\ Work[n].needs \subseteq after[n - 1]
             THEN {Work[n].id} ELSE {}
  IN after[Len(Work)]

-----------------------------------------------------------------------------
(* Attestations                                                             *)

Lock(v) == Trees[v].lock

\* Mutant: only the closure inputs are compared, not the source tree.
ClosureOnly(attestations, v) ==
  Len(attestations) > 0 /\ \A i \in DOMAIN attestations : attestations[i].lock = Lock(v)

\* valid_attestations, against the digests of the tree as it is now.  Every command of
\* an attestation that is kept has succeeded.
Attested(attestations, v) ==
  /\ Len(attestations) > 0
  /\ \A i \in DOMAIN attestations : attestations[i].source = v /\ attestations[i].lock = Lock(v)

\* validate_gate_report, and derived_metrics after it.
Qualifies(report, v) ==
  /\ Attested(report.attestations, v)
  /\ report.gate \in ServiceGates => report.services > 0
  /\ report.gate \notin Direct => Combined(report.gate, report.observed)

-----------------------------------------------------------------------------
Idle == [pc |-> "idle"]

Init ==
  /\ ScopeInit
  /\ runs = 0
  /\ job = Idle
  /\ packet = Idle
  /\ retention = 0
  /\ reports = [g \in Named13 |-> Missing]
  /\ summary = Missing
  /\ check = Idle
  /\ accepted = Missing

(* The run *)

Fresh(gate) == [pc |-> "command", gate |-> gate, attestations |-> <<>>, observed |-> <<>>,
                services |-> 0, source |-> 0, judged |-> <<0, 0>>]

Gate == Gates[job.gate]

Start ==
  /\ job.pc = "idle" /\ runs < MaxRuns
  /\ runs' = runs + 1
  /\ job' = Fresh(1)
  /\ UNCHANGED <<scopeVars, packet, files, check, accepted>>

\* command takes the digest of the source first, and then starts the process.
Digest ==
  /\ job.pc = "command"
  /\ job' = [job EXCEPT !.pc = "spawn", !.source = tree]
  /\ UNCHANGED <<scopeVars, runs, packet, files, check, accepted>>

Spawn ==
  /\ job.pc = "spawn"
  /\ job' = [job EXCEPT !.pc = "process"]
  /\ packet' = [pc |-> "running", began |-> tree, commands |-> 0, values |-> {}, services |-> 0]
  /\ UNCHANGED <<scopeVars, runs, files, check, accepted>>

InPacket == job.pc = "process" /\ Gate \notin Direct

\* PacketRun.command: a command that fails, or leaves no artifact, ends the packet.
PacketCommand ==
  /\ InPacket /\ packet.commands < MaxCommands
  /\ packet' = [packet EXCEPT !.commands = @ + 1]
  /\ UNCHANGED <<scopeVars, runs, job, files, check, accepted>>

\* ready_service: the endpoint answers, and the last command was its probe.
PacketReady ==
  /\ InPacket /\ packet.commands > 0
  /\ packet.services = 0
  /\ packet' = [packet EXCEPT !.services = 1]
  /\ UNCHANGED <<scopeVars, runs, job, files, check, accepted>>

\* observe_metric: a value measured after some command ran.
PacketObserve(v) ==
  /\ InPacket /\ packet.commands > 0
  /\ packet' = [packet EXCEPT !.values = @ \cup {v}]
  /\ UNCHANGED <<scopeVars, runs, job, files, check, accepted>>

\* What the end of a command leaves in the run: its attestation and what it emitted.
\* The closure inputs are read only now.
Ended(v, services, judged) ==
  LET more == Gate \notin Direct /\ Len(job.observed) + 1 < Len(Packets[Gate]) IN
  [job EXCEPT
     !.pc = IF more THEN "command" ELSE "report",
     !.attestations = Append(@, [source |-> job.source, lock |-> Lock(tree),
                                 began |-> packet.began, ended |-> tree]),
     !.observed = Append(@, v),
     !.services = @ + services,
     !.judged = judged]

\* PacketRun.result: the claim for the gate's metric rests on exactly one observation.
PacketResult(claim) ==
  /\ InPacket /\ packet.commands > 0
  /\ packet.values = {claim}
  /\ Derive(Operation(Gate, claim), <<claim>>) = claim
  /\ job' = Ended(claim, packet.services, job.judged)
  /\ packet' = Idle
  /\ UNCHANGED <<scopeVars, runs, files, check, accepted>>

\* verify_v2_removal.py exits with 0 when its verdict is valid; the run then notes
\* which ledger that was.
ScopeResult ==
  /\ job.pc = "process" /\ Gate = "V-SCOPE"
  /\ Valid(tree, head, inventory, ledger)
  /\ job' = Ended(0, 0, <<inventory, ledger>>)
  /\ packet' = Idle
  /\ retention' = ledger
  /\ UNCHANGED <<scopeVars, runs, reports, summary, check, accepted>>

VMResult(log) ==
  /\ job.pc = "process"
  /\ \/ Gate = "V-BOOT" /\ Booted(log)
     \/ Gate = "V-ROLLBACK" /\ RolledBack(log)
  /\ job' = Ended(0, 0, job.judged)
  /\ packet' = Idle
  /\ UNCHANGED <<scopeVars, runs, files, check, accepted>>

Report == [kind |-> "report", run |-> runs, gate |-> Gate, attestations |-> job.attestations,
           observed |-> job.observed, services |-> job.services,
           judged |-> job.judged, support |-> retention]

\* write_report judges what it is about to write, against the tree as it is now.
WriteReport ==
  /\ job.pc = "report"
  /\ Qualifies(Report, tree)
  /\ reports' = [reports EXCEPT ![Gate] = Report]
  /\ job' = IF job.gate < Len(Gates) THEN Fresh(job.gate + 1) ELSE [pc |-> "summary"]
  /\ UNCHANGED <<scopeVars, runs, packet, retention, summary, check, accepted>>

Present == {g \in Named13 : reports[g].kind = "report"}

\* The completion predicates whose values a summary takes from metrics.
Complete(gates) ==
  \A g \in gates \cap {"V-SCOPE", "V-STATE"} : reports[g].observed[1] = 0

\* write_summary binds every report by its digest, and the protected ledger by its own.
Summarise ==
  /\ job.pc = "summary"
  /\ summary' = [kind |-> "summary", run |-> runs, source |-> tree,
                 gates |-> [g \in Present |-> reports[g]],
                 protected |-> ledger, complete |-> Complete(Present),
                 work |-> PassedWork(Present)]
  /\ job' = Idle
  /\ UNCHANGED <<scopeVars, runs, packet, retention, reports, check, accepted>>

\* A command or a judgement fails and the run ends, or it is killed; what it has
\* written stays, and a file it was writing may be cut short.
Stop ==
  /\ job.pc # "idle"
  /\ job' = Idle
  /\ packet' = Idle
  /\ \/ UNCHANGED files
     \/ /\ job.pc = "report" /\ Qualifies(Report, tree)
        /\ reports' = [reports EXCEPT ![Gate] = Torn]
        /\ UNCHANGED <<retention, summary>>
     \/ /\ job.pc = "summary"
        /\ summary' = Torn
        /\ UNCHANGED <<retention, reports>>
  /\ UNCHANGED <<scopeVars, runs, check, accepted>>

-----------------------------------------------------------------------------
(* The verifier *)

Refuse == check' = Idle /\ UNCHANGED accepted

Open ==
  /\ check.pc = "idle"
  /\ summary.kind = "summary" /\ summary.source = tree
  /\ check' = [pc |-> "gates", summary |-> summary, judged |-> <<>>]
  /\ UNCHANGED <<scopeVars, release, accepted>>

\* Mutant: the summary's word for the report is taken.
Trusted(report) == reports[report.gate].kind = "report"

\* The report must be the very file the summary bound.
Bound(report) == reports[report.gate] = report

VerifyGate ==
  /\ check.pc = "gates"
  /\ \E i \in DOMAIN Gates :
       LET g == Gates[i]
           report == reports[g]
           left == DOMAIN check.summary.gates \ DOMAIN check.judged IN
       /\ g \in left /\ \A j \in 1..(i - 1) : Gates[j] \notin left
       /\ IF /\ Bound(check.summary.gates[g])
             /\ Qualifies(report, tree)
             /\ g = "V-SCOPE" => retention = report.support
          THEN /\ check' = [check EXCEPT !.judged =
                              [h \in DOMAIN @ \cup {g} |-> IF h = g THEN report ELSE @[h]]]
               /\ UNCHANGED accepted
          ELSE Refuse
  /\ UNCHANGED <<scopeVars, release>>

\* What must hold of a summary once all its reports have been judged.
Completes(s) ==
  /\ DOMAIN s.gates = Named13
  /\ s.protected = ledger
  /\ s.complete
  /\ s.work = PassedWork(DOMAIN s.gates) /\ Cardinality(s.work) = Len(Work)
  /\ \A g \in ZeroGates : s.gates[g].observed[1] = 0

VerifyCompletion ==
  /\ check.pc = "gates" /\ DOMAIN check.judged = DOMAIN check.summary.gates
  /\ IF Completes(check.summary)
     THEN /\ check' = Idle
          /\ accepted' = [kind |-> "accepted", summary |-> check.summary,
                          judged |-> check.judged]
     ELSE Refuse
  /\ UNCHANGED <<scopeVars, release>>

-----------------------------------------------------------------------------
(* The scope tools, while the release goes on *)

Outside == ScopeNext /\ UNCHANGED <<release, check, accepted>>

Next ==
  \/ Outside
  \/ Start \/ Digest \/ Spawn
  \/ PacketCommand \/ PacketReady \/ (\E v \in Values : PacketObserve(v))
  \/ (\E claim \in Values : PacketResult(claim))
  \/ ScopeResult \/ (\E log \in BootLogs : VMResult(log))
  \/ WriteReport \/ Summarise \/ Stop
  \/ Open \/ VerifyGate \/ VerifyCompletion

Spec == Init /\ [][Next]_vars

-----------------------------------------------------------------------------
(* Properties *)

Attestation == [source : 1..Len(Trees), lock : {Lock(v) : v \in 1..Len(Trees)},
                began : 1..Len(Trees), ended : 1..Len(Trees)]
IsReport(r) ==
  /\ r.gate \in Named13 /\ r.run \in 1..MaxRuns
  /\ r.attestations \in Seq(Attestation)
  /\ Len(r.observed) = Len(r.attestations)
  /\ r.support \in 0..Len(Trees)

\* Every variable holds what the files and the memory of the two programs can hold;
\* a report has one measurement and one attestation for each command of its gate.
TypeOK ==
  /\ ScopeTypeOK
  /\ runs \in 0..MaxRuns
  /\ job.pc \in {"idle", "command", "spawn", "process", "report", "summary"}
  /\ packet.pc = "running" <=> job.pc = "process"
  /\ retention \in 0..Len(Trees)
  /\ \A g \in Named13 : reports[g].kind = "report" =>
       /\ IsReport(reports[g]) /\ reports[g].gate = g
       /\ Len(reports[g].attestations) = IF g \in Direct THEN 1 ELSE Len(Packets[g])
  /\ summary.kind \in {"missing", "torn", "summary"}
  /\ check.pc \in {"idle", "gates"}
  /\ accepted.kind \in {"missing", "accepted"}

Released == accepted.kind = "accepted"
Judged == {accepted.judged[g] : g \in DOMAIN accepted.judged}

\* The evidence of an accepted release is one run's, although a run that stops leaves
\* its reports among those of the run before it, and the summary of that one
\* (run_release, verify).
AcceptedIsOneRun ==
  Released => \A r \in Judged : r.run = accepted.summary.run

\* Every command behind an accepted release began and ended on the source tree it was
\* accepted for, although the tree is read before the command starts and again only
\* when its report is written (command, write_report, verify).
AcceptedRanOnTree ==
  Released => \A r \in Judged : \A i \in DOMAIN r.attestations :
                r.attestations[i].began = accepted.summary.source
                /\ r.attestations[i].ended = accepted.summary.source

\* No packet of an accepted gate measured a count other than zero, if completion
\* depends on the gate or if several packets measure it: their equal claims have to be
\* the sum of what they all measured (combine_packet_results, verify).
AcceptedCountsAreZero ==
  Released => \A r \in Judged :
    \/ r.gate \in Direct \cup Flags
    \/ r.gate \notin ZeroGates /\ Len(Packets[r.gate]) = 1
    \/ \A i \in DOMAIN r.observed : r.observed[i] = 0

\* What a ledger deletes is gone from the accepted tree, when the ledger the gate
\* judged was made from the inventory beside it (verify_v2_removal.py, V-SCOPE).
AcceptedScopeIsClean ==
  Released => \A r \in Judged : r.gate = "V-SCOPE" /\ r.judged[1] = r.judged[2] =>
    LET v == accepted.summary.source
        led == r.judged[2] IN
    /\ \A p \in Tracked(led) : PathAction(led, p) = "DELETE" => p \notin Tracked(v)
    /\ \A m \in Members(led) : MemberAction(m) = "DELETE" => m \notin Members(v)

\* The claim of the released contract: all DELETE targets of the ledger the release
\* protects are absent from the accepted tree, whichever inventory lay beside it.
DeletedIsAbsent ==
  Released => LET led == accepted.summary.protected IN
    \A p \in Tracked(led) : PathAction(led, p) = "DELETE" =>
                                p \notin Tracked(accepted.summary.source)

=============================================================================
