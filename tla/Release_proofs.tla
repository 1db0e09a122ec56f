---------------------------- MODULE Release_proofs ----------------------------
(* The theorems about the release evidence, for any gates, packets and number  *)
(* of runs and any succession of trees.  A run's reports, a summary's and those *)
(* a verifier has judged are three copies, and each is sound against the tree   *)
(* of its own time; the tree only moves on.                                     *)
EXTENDS Release, WellFoundedInduction, FiniteSetTheorems, TLAPS

-----------------------------------------------------------------------------
(* Induction, with a set in place of a predicate *)

LEMMA Least ==
  ASSUME NEW T, T \subseteq Nat, T # {}
  PROVE  \E x \in T : \A y \in T : x <= y
<1> DEFINE Lt == {ss \in Nat \X Nat : ss[1] < ss[2]}
<1>1. IsWellFoundedOn(Lt, Nat)
  BY NatLessThanWellFounded DEF OpToRel
<1> HIDE DEF Lt
<1>2. PICK x \in T : \A y \in T : ~ (<<y, x>> \in Lt)
  BY <1>1, WFMin, Zenon
<1>3. \A m, n \in Nat : m < n => <<m, n>> \in Lt
  BY DEF Lt
<1>4. ASSUME NEW y \in T PROVE x <= y
  <2>1. x \in Nat /\ y \in Nat
    OBVIOUS
  <2>2. ~ (y < x)
    BY <1>2, <1>3, <2>1
  <2> QED
    BY <2>1, <2>2
<1> QED
  BY <1>4

LEMMA Induction ==
  ASSUME NEW S, 0 \in S, \A n \in S : n \in Nat => n + 1 \in S
  PROVE  Nat \subseteq S
<1> SUFFICES ASSUME Nat \ S # {} PROVE FALSE
  OBVIOUS
<1>1. PICK x \in Nat \ S : \A y \in Nat \ S : x <= y
  BY Least
<1>2. x # 0
  BY <1>1
<1>3. x - 1 \in Nat /\ x - 1 \notin Nat \ S
  BY <1>1, <1>2
<1> QED
  BY <1>1, <1>3

-----------------------------------------------------------------------------
(* The sum of a sequence *)

\* The last position of a set of positions.
LEMMA LastOf ==
  ASSUME NEW n \in Nat, NEW s \in SUBSET (1..n), s # {}
  PROVE  Max(s) \in s /\ \A i \in s : i <= Max(s)
<1>1. \E m \in s : \A i \in s : i <= m
  <2>1. {n - i : i \in s} \subseteq Nat /\ {n - i : i \in s} # {}
    <3>1. ASSUME NEW i \in s PROVE n - i \in Nat
      <4>1. i \in Nat /\ i <= n
        OBVIOUS
      <4> QED
        BY <4>1
    <3> QED
      BY <3>1
  <2>2. PICK d \in {n - i : i \in s} : \A e \in {n - i : i \in s} : d <= e
    BY <2>1, Least
  <2>3. PICK m \in s : d = n - m
    OBVIOUS
  <2>4. ASSUME NEW i \in s PROVE i <= m
    <3>1. n - m <= n - i
      BY <2>2, <2>3
    <3> QED
      BY <3>1
  <2> QED
    BY <2>4
<1>2. \E m \in s : \A i \in s : m >= i
  BY <1>1
<1> QED
  BY <1>2 DEF Max

\* What a fold over positions s adds up, given what it adds up over fewer of them.
Added(vs, f, s) == IF s = {} THEN 0 ELSE f[s \ {Max(s)}] + vs[Max(s)]
Adds(vs, f) == f = [s \in SUBSET DOMAIN vs |-> Added(vs, f, s)]

LEMMA SomeAdds ==
  ASSUME NEW vs \in Seq(Nat)
  PROVE  \E f : Adds(vs, f)
<1> DEFINE n == Len(vs)
           D == DOMAIN vs
           Upto(f, k) == \A s \in SUBSET D : Cardinality(s) <= k => f[s] = Added(vs, f, s)
           S == {k \in Nat : \E f : Upto(f, k)}
<1>1. n \in Nat /\ D = 1..n /\ IsFiniteSet(D) /\ Cardinality(D) = n
  <2>1. n \in Nat /\ D = 1..n
    OBVIOUS
  <2>2. IsFiniteSet(1..n) /\ Cardinality(1..n) = IF 1 > n THEN 0 ELSE n - 1 + 1
    BY <2>1, FS_Interval
  <2> HIDE DEF n, D
  <2> QED
    BY <2>1, <2>2
<1>2. \A s \in SUBSET D : IsFiniteSet(s) /\ Cardinality(s) \in Nat /\ Cardinality(s) <= n
                          /\ (Cardinality(s) = 0 <=> s = {})
  BY <1>1, FS_Subset, FS_EmptySet, FS_CardinalityType
<1>3. ASSUME NEW s \in SUBSET D, s # {}
      PROVE  /\ s \ {Max(s)} \in SUBSET D
             /\ Cardinality(s \ {Max(s)}) = Cardinality(s) - 1
  <2>1. Max(s) \in s
    BY <1>1, <1>3, LastOf
  <2> QED
    BY <1>2, <2>1, FS_RemoveElement
<1>4. 0 \in S
  <2>1. Upto([s \in SUBSET D |-> 0], 0)
    BY <1>2 DEF Added
  <2> QED
    BY <2>1
<1>5. ASSUME NEW k \in S PROVE k + 1 \in S
  <2>1. PICK f : Upto(f, k)
    OBVIOUS
  <2> DEFINE g == [s \in SUBSET D |-> Added(vs, f, s)]
  <2>2. ASSUME NEW s \in SUBSET D, Cardinality(s) <= k + 1
        PROVE  g[s] = Added(vs, g, s)
    <3>1. CASE s = {}
      BY <3>1 DEF Added
    <3>2. CASE s # {}
      <4>1. Cardinality(s \ {Max(s)}) <= k /\ s \ {Max(s)} \in SUBSET D
        <5>1. Cardinality(s) \in Nat
          BY <1>2
        <5>2. Cardinality(s \ {Max(s)}) = Cardinality(s) - 1 /\ s \ {Max(s)} \in SUBSET D
          BY <1>3, <3>2
        <5> QED
          BY <2>2, <5>1, <5>2
      <4>2. g[s \ {Max(s)}] = f[s \ {Max(s)}]
        BY <2>1, <4>1
      <4> QED
        BY <3>2, <4>2 DEF Added
    <3> QED
      BY <3>1, <3>2
  <2>3. Upto(g, k + 1)
    BY <2>2
  <2> HIDE DEF g
  <2> QED
    BY <2>3
<1>6. n \in S
  BY <1>1, <1>4, <1>5, Induction
<1>7. PICK f : Upto(f, n)
  BY <1>6
<1> DEFINE g == [s \in SUBSET D |-> f[s]]
<1>8. ASSUME NEW s \in SUBSET D PROVE g[s] = Added(vs, g, s)
  BY <1>2, <1>3, <1>7 DEF Added
<1>9. Adds(vs, g)
  BY <1>8 DEF Adds
<1> QED
  BY <1>9

LEMMA DeriveAdds ==
  ASSUME NEW vs \in Seq(Nat)
  PROVE  \E f : Adds(vs, f) /\ Derive("sum_values", vs) = f[DOMAIN vs]
<1> DEFINE f == CHOOSE f : Adds(vs, f)
<1>1. Derive("sum_values", vs) = f[DOMAIN vs]
  BY DEF Derive, FoldLeft, MapThenFoldSet, Adds, Added
<1>2. Adds(vs, f)
  BY SomeAdds
<1> QED
  BY <1>1, <1>2

\* The fold over a sequence of naturals, as the totals of its prefixes.
LEMMA Totals ==
  ASSUME NEW vs \in Seq(Nat)
  PROVE  \E t \in [0..Len(vs) -> Nat] :
           /\ t[0] = 0
           /\ \A k \in 1..Len(vs) : t[k] = t[k - 1] + vs[k]
           /\ Derive("sum_values", vs) = t[Len(vs)]
<1> DEFINE n == Len(vs)
<1>1. n \in Nat /\ DOMAIN vs = 1..n
  OBVIOUS
<1>2. PICK f : Adds(vs, f) /\ Derive("sum_values", vs) = f[1..n]
  BY <1>1, DeriveAdds
<1>3. f[1..0] = 0
  <2>1. 1..0 = {}
    OBVIOUS
  <2> QED
    BY <1>2, <2>1 DEF Adds, Added
<1>4. ASSUME NEW k \in 1..n
      PROVE  f[1..k] = f[1..(k - 1)] + vs[k]
  <2>0. k \in Nat /\ k >= 1 /\ k <= n
    BY <1>1
  <2>1. 1..k \in SUBSET (1..n) /\ k \in 1..k /\ k \in Nat /\ 1..k # {}
    <3>1. \A i \in 1..k : i \in 1..n
      BY <1>1, <2>0
    <3>2. k \in 1..k
      BY <2>0
    <3> QED
      BY <2>0, <3>1, <3>2
  <2>2. Max(1..k) \in 1..k /\ k <= Max(1..k)
    BY <1>1, <2>1, LastOf
  <2>3. Max(1..k) = k
    BY <2>1, <2>2
  <2>4. (1..k) \ {k} = 1..(k - 1)
    BY <2>1
  <2>5. f[1..k] = Added(vs, f, 1..k)
    BY <1>1, <1>2, <2>1 DEF Adds
  <2> QED
    BY <2>1, <2>3, <2>4, <2>5 DEF Added
<1> DEFINE S == {k \in Nat : k <= n => f[1..k] \in Nat}
<1>5. 0 \in S
  BY <1>3
<1>6. ASSUME NEW k \in S
      PROVE  k + 1 \in S
  <2>1. CASE k + 1 <= n
    <3>1. k + 1 \in 1..n /\ (k + 1) - 1 = k /\ k <= n /\ k \in Nat
      BY <1>1, <2>1
    <3>2. f[1..(k + 1)] = f[1..k] + vs[k + 1]
      BY <1>4, <3>1
    <3>3. f[1..k] \in Nat /\ vs[k + 1] \in Nat
      BY <1>1, <3>1
    <3> QED
      BY <3>1, <3>2, <3>3
  <2>2. CASE ~ (k + 1 <= n)
    BY <2>2
  <2> QED
    BY <2>1, <2>2
<1> HIDE DEF S
<1>7. Nat \subseteq S
  BY <1>5, <1>6, Induction
<1> DEFINE t == [k \in 0..n |-> f[1..k]]
<1>8. t \in [0..n -> Nat]
  BY <1>1, <1>7 DEF S
<1>9. t[0] = 0 /\ t[n] = f[1..n] /\ \A k \in 1..n : t[k] = t[k - 1] + vs[k]
  BY <1>1, <1>3, <1>4
<1> HIDE DEF t
<1> QED
  BY <1>2, <1>8, <1>9

\* A claim that several packets make alike is the sum of what all of them measured only
\* when there is nothing to sum.
LEMMA AlikeClaimsAreZero ==
  ASSUME NEW vs \in Seq(Nat), Len(vs) > 1, \A i \in DOMAIN vs : vs[i] = vs[1],
         Derive("sum_values", vs) = vs[1]
  PROVE  vs[1] = 0
<1> DEFINE n == Len(vs)
<1>1. n \in Nat /\ n - 1 \in 1..n /\ n \in 1..n /\ DOMAIN vs = 1..n
  <2>1. n \in Nat /\ n > 1 /\ DOMAIN vs = 1..n
    OBVIOUS
  <2> HIDE DEF n
  <2> QED
    BY <2>1
<1>2. PICK t \in [0..n -> Nat] :
        /\ \A k \in 1..n : t[k] = t[k - 1] + vs[k]
        /\ t[n] = vs[1]
  BY Totals
<1> HIDE DEF n
<1>3. vs[n] = vs[1] /\ vs[n - 1] = vs[1] /\ vs[1] \in Nat
  <2>1. vs[n] \in Nat
    BY <1>1
  <2> QED
    BY <1>1, <2>1
<1>4. t[n] = t[n - 1] + vs[1] /\ t[n - 1] = t[(n - 1) - 1] + vs[1]
  <2>1. t[n] = t[n - 1] + vs[n]
    BY <1>1, <1>2
  <2>2. t[n - 1] = t[(n - 1) - 1] + vs[n - 1]
    BY <1>1, <1>2
  <2> QED
    BY <1>3, <2>1, <2>2
<1>5. t[n - 1] \in Nat /\ t[(n - 1) - 1] \in Nat
  <2>1. n - 1 \in 0..n /\ (n - 1) - 1 \in 0..n
    BY <1>1
  <2> QED
    BY <2>1
<1> QED
  BY <1>2, <1>3, <1>4, <1>5

-----------------------------------------------------------------------------
(* Order in time *)

Version == 1..Len(Trees)

\* An attestation's digest was taken, and its command began and ended, in this order
\* and not after the tree was at v.
Past(a, v) == a.source <= a.began /\ a.began <= a.ended /\ a.ended <= v

AllPast(ats, v) == \A i \in DOMAIN ats : Past(ats[i], v)

LEMMA TreesCounted == Len(Trees) \in Nat \ {0} /\ \A v \in Version : v \in Nat
<1>1. PICK S : Trees \in Seq(S)
  BY ScopeAssumption DEF ScopeAssumption
<1>2. Len(Trees) \in Nat
  BY <1>1
<1>3. Len(Trees) > 0
  BY ScopeAssumption DEF ScopeAssumption
<1> QED
  BY <1>2, <1>3 DEF Version

LEMMA GatesCounted ==
  /\ Len(Gates) \in Nat \ {0} /\ DOMAIN Gates = 1..Len(Gates)
  /\ \A i \in 1..Len(Gates) : Gates[i] \in Named13
  /\ \A g \in Named13 : \E i \in 1..Len(Gates) : Gates[i] = g
<1>1. Len(Gates) \in Nat /\ DOMAIN Gates = 1..Len(Gates)
  BY ReleaseAssumption DEF ReleaseAssumption
<1>2. \E i \in DOMAIN Gates : Gates[i] = "V-SCOPE"
  BY ReleaseAssumption DEF ReleaseAssumption, Named13
<1> QED
  BY <1>1, <1>2 DEF Named13

LEMMA TreeStep ==
  ASSUME ScopeTypeOK, [Next]_vars
  PROVE  ScopeTypeOK' /\ tree <= tree'
<1>0. tree \in Nat /\ head \in Nat /\ Len(Trees) \in Nat
  BY TreesCounted DEF ScopeTypeOK
<1>1. CASE UNCHANGED scopeVars
  BY <1>0, <1>1 DEF scopeVars, ScopeTypeOK
<1>2. CASE ScopeNext
  <2>1. CASE Edit
    BY <1>0, <2>1 DEF Edit, ScopeTypeOK
  <2>2. CASE Commit
    BY <1>0, <2>2 DEF Commit, ScopeTypeOK
  <2>3. CASE TakeInventory
    BY <1>0, <2>3 DEF TakeInventory, ScopeTypeOK
  <2>4. CASE Classify
    BY <1>0, <2>4 DEF Classify, ScopeTypeOK
  <2> QED
    BY <1>2, <2>1, <2>2, <2>3, <2>4 DEF ScopeNext
<1>3. UNCHANGED scopeVars \/ ScopeNext
  BY DEF Next, vars, Outside, Start, Digest, Spawn, PacketCommand, PacketReady, PacketObserve,
         PacketResult, ScopeResult, VMResult, WriteReport, Summarise, Stop, Open, VerifyGate,
         VerifyCompletion
<1> QED
  BY <1>1, <1>2, <1>3

LEMMA AttestationAt ==
  ASSUME NEW ats \in Seq(Attestation)
  PROVE  /\ Len(ats) \in Nat /\ DOMAIN ats = 1..Len(ats)
         /\ \A i \in DOMAIN ats : ats[i] \in Attestation
<1>1. Len(ats) \in Nat /\ DOMAIN ats = 1..Len(ats)
  OBVIOUS
<1>2. ASSUME NEW i \in 1..Len(ats)
      PROVE  ats[i] \in Attestation
  OBVIOUS
<1> QED
  BY <1>1, <1>2

LEMMA PastStays ==
  ASSUME NEW ats \in Seq(Attestation), NEW v \in Nat, NEW w \in Nat, v <= w, AllPast(ats, v)
  PROVE  AllPast(ats, w)
<1>1. ASSUME NEW i \in DOMAIN ats
      PROVE  Past(ats[i], w)
  <2>1. ats[i] \in Attestation
    BY <1>1, AttestationAt
  <2>2. ats[i].ended \in Nat
    BY <2>1, TreesCounted DEF Attestation, Version
  <2>3. Past(ats[i], v)
    BY <1>1 DEF AllPast
  <2> QED
    BY <2>2, <2>3 DEF Past
<1> QED
  BY <1>1 DEF AllPast

-----------------------------------------------------------------------------
(* The inductive invariant *)

Commands(g) == IF g \in Direct THEN 1 ELSE Len(Packets[g])

Active == {"command", "spawn", "process", "report"}

Running == [pc : Active, gate : 1..Len(Gates), attestations : Seq(Attestation),
            observed : Seq(Nat), services : Nat, source : 0..Len(Trees), judged : Nat \X Nat]

Process == [pc : {"running"}, began : Version, commands : Nat, values : SUBSET Nat,
            services : Nat]

\* What the ledger of a pair of inventory and ledger deletes is not in the tree at v.
Clears(v, judged) ==
  Remaining(v, judged[1], judged[2]) = {} /\ RemainingMembers(v, judged[2]) = {}

Cleared(r) == Clears(r.attestations[1].ended, r.judged)

\* A gate whose report is of the run that goes on.
Reported(g) == reports[g].kind = "report" /\ reports[g].run = runs

RunInv ==
  /\ runs \in 0..MaxRuns
  /\ job \in Running \cup {Idle, [pc |-> "summary"]}
  /\ job.pc # "idle" => runs > 0
  /\ job.pc \in Active =>
       /\ Len(job.observed) = Len(job.attestations)
       /\ Len(job.attestations) <= Commands(Gate)
       /\ (job.pc = "report") <=> (Len(job.attestations) = Commands(Gate))
       /\ AllPast(job.attestations, tree)
       /\ \A i \in 1..Len(Gates) : i < job.gate => Reported(Gates[i])
       /\ job.pc = "report" /\ Gate = "V-SCOPE" => Cleared(job)
  /\ job.pc \in {"spawn", "process"} => job.source \in 1..tree
  /\ IF job.pc = "process" THEN packet \in Process /\ packet.began \in job.source..tree
     ELSE packet = Idle
  /\ job.pc = "summary" => \A g \in Named13 : Reported(g)

\* A report of gate g that was written while the tree was at v or before.
SoundReport(r, g, v) ==
  /\ IsReport(r) /\ r.gate = g
  /\ Len(r.attestations) = Commands(g) /\ r.observed \in Seq(Nat)
  /\ AllPast(r.attestations, v)
  /\ g = "V-SCOPE" => Cleared(r)

ReportsInv ==
  /\ retention \in 0..Len(Trees)
  /\ reports = [g \in Named13 |-> reports[g]]
  /\ \A g \in Named13 :
       /\ reports[g].kind \in {"missing", "torn", "report"}
       /\ reports[g].kind = "report" => SoundReport(reports[g], g, tree)

\* A summary binds reports of its own run, all written before it.
SoundSummary(s) ==
  /\ s.source \in 1..tree
  /\ DOMAIN s.gates \subseteq Named13
  /\ \A g \in DOMAIN s.gates : s.gates[g].run = s.run /\ SoundReport(s.gates[g], g, s.source)

SummaryInv ==
  /\ summary.kind \in {"missing", "torn", "summary"}
  /\ summary.kind = "summary" => SoundSummary(summary)

RanOn(r, v) ==
  \A i \in DOMAIN r.attestations : r.attestations[i].began = v /\ r.attestations[i].ended = v

\* What a verifier has judged is what its summary bound, on the summary's tree.
CheckInv ==
  /\ check.pc \in {"idle", "gates"}
  /\ check.pc = "gates" =>
       /\ SoundSummary(check.summary)
       /\ DOMAIN check.judged \subseteq DOMAIN check.summary.gates
       /\ \A g \in DOMAIN check.judged :
            /\ check.judged[g] = check.summary.gates[g]
            /\ RanOn(check.judged[g], check.summary.source)
            /\ g \notin Direct => Combined(g, check.judged[g].observed)

AcceptedInv ==
  /\ accepted.kind \in {"missing", "accepted"}
  /\ AcceptedIsOneRun /\ AcceptedRanOnTree /\ AcceptedScopeIsClean /\ AcceptedCountsAreZero

IInv == ScopeTypeOK /\ RunInv /\ ReportsInv /\ SummaryInv /\ CheckInv /\ AcceptedInv

-----------------------------------------------------------------------------
(* What a step leaves alone stays sound *)

Tick == tree \in Nat /\ tree' \in Nat /\ tree <= tree'

LEMMA Ticks == ASSUME ScopeTypeOK, [Next]_vars PROVE Tick
BY TreeStep, TreesCounted DEF ScopeTypeOK, Tick

LEMMA ReportStays ==
  ASSUME NEW r, NEW g, NEW v \in Nat, NEW w \in Nat, v <= w, SoundReport(r, g, v)
  PROVE  SoundReport(r, g, w)
BY PastStays DEF SoundReport, IsReport

LEMMA ReportsStay ==
  ASSUME ReportsInv, Tick, UNCHANGED <<retention, reports>>
  PROVE  ReportsInv'
BY ReportStays DEF ReportsInv, Tick

LEMMA SummarySound ==
  ASSUME NEW s, SoundSummary(s), Tick
  PROVE  SoundSummary(s)'
<1>1. s.source \in 1..tree'
  BY DEF SoundSummary, Tick
<1> QED
  BY <1>1 DEF SoundSummary

LEMMA SummaryStays ==
  ASSUME SummaryInv, Tick, UNCHANGED summary
  PROVE  SummaryInv'
BY SummarySound DEF SummaryInv

LEMMA CheckStays ==
  ASSUME CheckInv, Tick, UNCHANGED check
  PROVE  CheckInv'
BY SummarySound DEF CheckInv

LEMMA AcceptedStays ==
  ASSUME AcceptedInv, UNCHANGED accepted
  PROVE  AcceptedInv'
BY DEF AcceptedInv, AcceptedIsOneRun, AcceptedRanOnTree, AcceptedScopeIsClean,
       AcceptedCountsAreZero, Released, Judged

LEMMA RunTyped ==
  ASSUME RunInv, job.pc \in Active
  PROVE  /\ job \in Running /\ Gate \in Named13 /\ Len(job.attestations) \in Nat
         /\ Commands(Gate) \in Nat \ {0}
<1>1. job \in Running
  BY DEF RunInv, Active, Idle
<1>2. Gate \in Named13
  BY <1>1, GatesCounted DEF Running, Gate
<1>3. Len(job.attestations) \in Nat
  BY <1>1 DEF Running
<1>4. Commands(Gate) \in Nat \ {0}
  BY <1>2, ReleaseAssumption DEF ReleaseAssumption, Commands, Direct
<1> QED
  BY <1>1, <1>2, <1>3, <1>4

LEMMA RunStays ==
  ASSUME RunInv, Tick, UNCHANGED <<runs, job, packet, reports>>
  PROVE  RunInv'
<1>1. job.pc \in Active => AllPast(job.attestations, tree')
  <2>1. SUFFICES ASSUME job.pc \in Active PROVE AllPast(job.attestations, tree')
    OBVIOUS
  <2>2. job.attestations \in Seq(Attestation)
    BY <2>1, RunTyped DEF Running
  <2> QED
    BY <2>1, <2>2, PastStays DEF RunInv, Tick
<1>2. job.pc \in {"spawn", "process"} => job.source \in 1..tree'
  BY DEF RunInv, Tick
<1>3. job.pc = "process" => packet.began \in job.source..tree'
  BY DEF RunInv, Tick
<1> QED
  BY <1>1, <1>2, <1>3 DEF RunInv, Reported, Gate

-----------------------------------------------------------------------------
(* The run *)

LEMMA FreshRun ==
  ASSUME NEW n \in 1..Len(Gates), job' = Fresh(n), packet' = Idle,
         runs' \in 1..MaxRuns, ScopeTypeOK,
         \A i \in 1..Len(Gates) : i < n => Reported(Gates[i])'
  PROVE  RunInv'
<1>1. job' = [pc |-> "command", gate |-> n, attestations |-> <<>>, observed |-> <<>>,
              services |-> 0, source |-> 0, judged |-> <<0, 0>>]
  BY DEF Fresh
<1>2. job' \in Running
  BY <1>1, TreesCounted DEF Running, Active
<1>3. Gate' \in Named13
  BY <1>1, GatesCounted DEF Gate
<1>4. Commands(Gate') \in Nat \ {0}
  BY <1>3, ReleaseAssumption DEF ReleaseAssumption, Commands, Direct
<1>5. Commands(Gate)' = Commands(Gate')
  BY DEF Commands
<1>6. /\ job'.pc = "command" /\ job'.gate = n
      /\ Len(job'.observed) = 0 /\ Len(job'.attestations) = 0
  BY <1>1
<1>7. AllPast(job'.attestations, tree')
  BY <1>1 DEF AllPast
<1>8. ReleaseAssumption => MaxRuns \in Nat
  BY DEF ReleaseAssumption
<1> QED
  BY <1>2, <1>4, <1>5, <1>6, <1>7, <1>8, ReleaseAssumption DEF RunInv, Active, Commands

LEMMA StartRun ==
  ASSUME IInv, Start
  PROVE  RunInv'
<1>1. runs' \in 1..MaxRuns
  BY ReleaseAssumption DEF ReleaseAssumption, Start, IInv, RunInv
<1>2. packet' = Idle
  BY DEF Start, IInv, RunInv
<1> QED
  BY <1>1, <1>2, GatesCounted, FreshRun DEF Start, IInv

LEMMA DigestRun ==
  ASSUME IInv, Tick, Digest
  PROVE  RunInv'
<1>1. job \in Running /\ job.pc = "command" /\ RunInv /\ tree \in 1..Len(Trees) /\ tree' = tree
  BY RunTyped DEF Digest, IInv, Active, ScopeTypeOK, scopeVars
<1>2. job' = [pc |-> "spawn", gate |-> job.gate, attestations |-> job.attestations,
              observed |-> job.observed, services |-> job.services, source |-> tree,
              judged |-> job.judged]
  BY <1>1 DEF Digest, Running
<1>3. job' \in Running
  BY <1>1, <1>2, TreesCounted DEF Running, Active
<1>4. UNCHANGED <<runs, packet, reports>>
  BY DEF Digest, files
<1>5. job'.source \in 1..tree' /\ packet' = Idle
  BY <1>1, <1>2, <1>4, TreesCounted DEF RunInv
<1> QED
  BY <1>1, <1>2, <1>3, <1>4, <1>5 DEF RunInv, Active, Gate, Reported

LEMMA SpawnRun ==
  ASSUME IInv, Tick, Spawn
  PROVE  RunInv'
<1>1. job \in Running /\ job.pc = "spawn" /\ RunInv /\ tree \in 1..Len(Trees) /\ tree' = tree
  BY RunTyped DEF Spawn, IInv, Active, ScopeTypeOK, scopeVars
<1>2. job' = [pc |-> "process", gate |-> job.gate, attestations |-> job.attestations,
              observed |-> job.observed, services |-> job.services, source |-> job.source,
              judged |-> job.judged]
  BY <1>1 DEF Spawn, Running
<1>3. job' \in Running
  BY <1>1, <1>2 DEF Running, Active
<1>4. UNCHANGED <<runs, reports>>
  BY DEF Spawn, files
<1>5. job'.source \in 1..tree'
  BY <1>1, <1>2 DEF RunInv
<1>6. packet' \in Process /\ packet'.began \in job'.source..tree'
  BY <1>1, <1>2, <1>5, TreesCounted DEF Spawn, Process, Version
<1> QED
  BY <1>1, <1>2, <1>3, <1>4, <1>5, <1>6 DEF RunInv, Active, Gate, Reported

LEMMA PacketRun ==
  ASSUME IInv, Tick, PacketCommand \/ PacketReady \/ \E v \in Values : PacketObserve(v)
  PROVE  RunInv'
<1>1. job.pc = "process" /\ packet \in Process /\ RunInv /\ UNCHANGED <<runs, job, reports, tree>>
  BY DEF IInv, RunInv, PacketCommand, PacketReady, PacketObserve, InPacket, files, scopeVars
<1>2. packet' \in Process /\ packet'.began = packet.began
  BY <1>1, ReleaseAssumption
     DEF ReleaseAssumption, PacketCommand, PacketReady, PacketObserve, Process
<1> QED
  BY <1>1, <1>2 DEF RunInv, Gate, Reported

\* The attestation that the end of a command adds.
Ran == [source |-> job.source, lock |-> Lock(tree), began |-> packet.began, ended |-> tree]

LEMMA EndedRun ==
  ASSUME IInv, Tick, job.pc = "process", NEW v \in Nat, NEW services \in Nat,
         NEW judged \in Nat \X Nat, Gate = "V-SCOPE" => Clears(tree, judged),
         job' = Ended(v, services, judged), packet' = Idle, UNCHANGED <<runs, reports, tree>>
  PROVE  RunInv'
<1> DEFINE more == Gate \notin Direct /\ Len(job.observed) + 1 < Len(Packets[Gate])
           pc == IF more THEN "command" ELSE "report"
<1>1. /\ job \in Running /\ RunInv /\ tree \in 1..Len(Trees) /\ Gate \in Named13
      /\ Commands(Gate) \in Nat \ {0}
  BY RunTyped DEF IInv, Active, ScopeTypeOK
<1>2. job' = [pc |-> pc, gate |-> job.gate, attestations |-> Append(job.attestations, Ran),
              observed |-> Append(job.observed, v), services |-> job.services + services,
              source |-> job.source, judged |-> judged]
  BY <1>1 DEF Ended, Running, Ran
<1>3. packet \in Process /\ packet.began \in job.source..tree /\ job.source \in 1..tree
  BY <1>1 DEF RunInv
<1>4. Ran \in Attestation /\ Past(Ran, tree)
  <2>1. job.source \in 1..Len(Trees) /\ packet.began \in 1..Len(Trees)
    BY <1>1, <1>3, TreesCounted DEF Process, Version
  <2> QED
    BY <1>1, <1>3, <2>1, TreesCounted DEF Ran, Attestation, Past, Version
<1>5. /\ job.attestations \in Seq(Attestation) /\ job.observed \in Seq(Nat)
      /\ job.services \in Nat /\ job.gate \in 1..Len(Gates) /\ job.source \in 0..Len(Trees)
  BY <1>1 DEF Running
<1>6. /\ Append(job.attestations, Ran) \in Seq(Attestation)
      /\ Len(Append(job.attestations, Ran)) = Len(job.attestations) + 1
      /\ AllPast(Append(job.attestations, Ran), tree)
  <2>1. AllPast(job.attestations, tree)
    BY <1>1 DEF RunInv, Active
  <2>2. Append(job.attestations, Ran) \in Seq(Attestation)
        /\ Len(Append(job.attestations, Ran)) = Len(job.attestations) + 1
    BY <1>4, <1>5
  <2>3. ASSUME NEW i \in 1..(Len(job.attestations) + 1)
        PROVE  Past(Append(job.attestations, Ran)[i], tree)
    <3>1. CASE i <= Len(job.attestations)
      <4>1. Append(job.attestations, Ran)[i] = job.attestations[i]
            /\ i \in DOMAIN job.attestations
        BY <1>5, <3>1
      <4> QED
        BY <2>1, <4>1 DEF AllPast
    <3>2. CASE i = Len(job.attestations) + 1
      BY <1>4, <1>5, <3>2
    <3>3. Len(job.attestations) \in Nat
      BY <1>5
    <3> QED
      BY <3>1, <3>2, <3>3
  <2>4. DOMAIN Append(job.attestations, Ran) = 1..(Len(job.attestations) + 1)
    BY <1>5
  <2> QED
    BY <2>2, <2>3, <2>4 DEF AllPast
<1>7. /\ Append(job.observed, v) \in Seq(Nat)
      /\ Len(Append(job.observed, v)) = Len(job.observed) + 1
  BY <1>5
<1>8. /\ Len(job.observed) = Len(job.attestations) /\ Len(job.attestations) \in Nat
      /\ Len(job.attestations) < Commands(Gate)
  <2>1. /\ Len(job.observed) = Len(job.attestations)
        /\ Len(job.attestations) <= Commands(Gate) /\ Len(job.attestations) # Commands(Gate)
    BY <1>1 DEF RunInv, Active
  <2>2. Len(job.attestations) \in Nat
    BY <1>5
  <2> QED
    BY <1>1, <2>1, <2>2
<1>9. pc \in {"command", "report"} /\ (pc = "report" <=> ~more)
  OBVIOUS
<1>10. ~more <=> Len(job.attestations) + 1 = Commands(Gate)
  <2>1. CASE Gate \in Direct
    BY <1>8, <2>1 DEF Commands
  <2>2. CASE Gate \notin Direct
    <3>1. Commands(Gate) = Len(Packets[Gate])
      BY <2>2 DEF Commands
    <3>2. more <=> Len(job.attestations) + 1 < Commands(Gate)
      BY <1>8, <2>2, <3>1
    <3>3. \A a \in Nat, c \in Nat : a < c => (~ (a + 1 < c) <=> a + 1 = c)
      OBVIOUS
    <3> HIDE DEF more
    <3> QED
      BY <1>1, <1>8, <3>2, <3>3
  <2> QED
    BY <2>1, <2>2
<1>11. Gate' = Gate /\ Commands(Gate)' = Commands(Gate)
  BY <1>2 DEF Gate, Commands
<1>12. /\ job'.pc = pc /\ job'.gate = job.gate
       /\ job'.attestations = Append(job.attestations, Ran)
       /\ job'.observed = Append(job.observed, v)
  BY <1>2
<1> HIDE DEF pc, more
<1>13. job' \in Running /\ Len(job.attestations) + 1 <= Commands(Gate)
  <2>1. Len(job.attestations) + 1 <= Commands(Gate)
    BY <1>1, <1>8
  <2>2. job.services + services \in Nat
    <3>1. PICK n \in Nat : n = job.services
      BY <1>5
    <3>2. n + services \in Nat
      OBVIOUS
    <3> QED
      BY <3>1, <3>2
  <2> QED
    BY <1>2, <1>5, <1>6, <1>7, <1>9, <2>1, <2>2 DEF Running, Active
<1>14. \A i \in 1..Len(Gates) : i < job'.gate => Reported(Gates[i])'
  BY <1>1, <1>12 DEF RunInv, Active, Reported
<1>15. runs' \in 0..MaxRuns /\ runs' > 0
  BY <1>1 DEF RunInv
<1>16. Gate = "V-SCOPE" => Cleared(job')
  <2> SUFFICES ASSUME Gate = "V-SCOPE" PROVE Cleared(job')
    OBVIOUS
  <2>1. Len(job.attestations) = 0
    BY <1>8 DEF Commands, Direct
  <2>2. Append(job.attestations, Ran)[1] = Ran
    BY <1>5, <2>1
  <2>3. job'.attestations[1].ended = tree /\ job'.judged = judged
    BY <1>2, <1>12, <2>2 DEF Ran
  <2> QED
    BY <2>3 DEF Cleared
<1> QED
  BY <1>6, <1>7, <1>8, <1>9, <1>10, <1>11, <1>12, <1>14, <1>15, <1>16, <1>13
     DEF RunInv, Cleared

LEMMA ResultRun ==
  ASSUME IInv, Tick,
         (\E claim \in Values : PacketResult(claim)) \/ ScopeResult
         \/ \E log \in BootLogs : VMResult(log)
  PROVE  RunInv'
<1>1. RunInv /\ ScopeTypeOK
  BY DEF IInv
<1>2. job.pc = "process"
  BY DEF PacketResult, InPacket, ScopeResult, VMResult
<1>3. job \in Running /\ packet \in Process
  BY <1>1, <1>2, RunTyped DEF RunInv, Active
<1>4. job.judged \in Nat \X Nat /\ packet.services \in Nat
  BY <1>3 DEF Running, Process
<1>5. <<inventory, ledger>> \in Nat \X Nat
  BY <1>1, TreesCounted DEF ScopeTypeOK
<1>6. /\ packet' = Idle /\ UNCHANGED <<runs, reports, tree>>
      /\ \E v \in Nat, services \in Nat, judged \in Nat \X Nat :
           /\ Gate = "V-SCOPE" => Clears(tree, judged)
           /\ job' = Ended(v, services, judged)
  <2>1. CASE \E claim \in Values : PacketResult(claim)
    BY <1>4, <2>1, ReleaseAssumption
       DEF ReleaseAssumption, PacketResult, InPacket, Direct, files, scopeVars
  <2>2. CASE ScopeResult
    <3>1. Clears(tree, <<inventory, ledger>>)
      BY <2>2 DEF ScopeResult, Valid, Clears
    <3> QED
      BY <1>5, <2>2, <3>1 DEF ScopeResult, scopeVars
  <2>3. CASE \E log \in BootLogs : VMResult(log)
    BY <1>4, <2>3 DEF VMResult, files, scopeVars
  <2> QED
    BY <2>1, <2>2, <2>3
<1> QED
  BY <1>2, <1>6, EndedRun

LEMMA WriteRun ==
  ASSUME IInv, Tick, WriteReport
  PROVE  RunInv'
<1>1. /\ job \in Running /\ job.pc = "report" /\ RunInv /\ ReportsInv
      /\ Gate \in Named13 /\ tree' = tree /\ runs' = runs
  BY RunTyped DEF WriteReport, IInv, Active, scopeVars
<1>2. job.gate \in 1..Len(Gates) /\ runs \in 1..MaxRuns /\ packet' = Idle
  BY <1>1, ReleaseAssumption DEF ReleaseAssumption, RunInv, Running, WriteReport
<1>3. reports' = [reports EXCEPT ![Gate] = Report] /\ Report.kind = "report" /\ Report.run = runs
  BY DEF WriteReport, Report
<1>4. \A i \in 1..Len(Gates) : i <= job.gate => Reported(Gates[i])'
  <2>1. ASSUME NEW i \in 1..Len(Gates), Gates[i] # Gate, i <= job.gate
        PROVE  Reported(Gates[i])'
    <3>1. i < job.gate
      BY <1>2, <2>1, GatesCounted DEF Gate
    <3>2. Reported(Gates[i])
      BY <1>1, <3>1 DEF RunInv, Active
    <3>3. reports'[Gates[i]] = reports[Gates[i]]
      BY <1>1, <1>3, <2>1, GatesCounted DEF ReportsInv
    <3> QED
      BY <1>1, <3>2, <3>3 DEF Reported
  <2>2. reports'[Gate] = Report
    BY <1>1, <1>3 DEF ReportsInv
  <2>3. ASSUME NEW i \in 1..Len(Gates), Gates[i] = Gate
        PROVE  Reported(Gates[i])'
    BY <1>1, <1>3, <2>2, <2>3 DEF Reported
  <2> QED
    BY <2>1, <2>3
<1>5. CASE job.gate < Len(Gates) /\ job' = Fresh(job.gate + 1)
  BY <1>1, <1>2, <1>4, <1>5, FreshRun, GatesCounted DEF IInv
<1>6. CASE job.gate = Len(Gates) /\ job' = [pc |-> "summary"]
  <2>1. \A g \in Named13 : Reported(g)'
    BY <1>2, <1>4, <1>6, GatesCounted
  <2> QED
    BY <1>1, <1>2, <1>6, <2>1 DEF RunInv, Active
<1> QED
  BY <1>2, <1>5, <1>6, GatesCounted DEF WriteReport

LEMMA EndRun ==
  ASSUME IInv, Tick, Summarise \/ Stop
  PROVE  RunInv'
<1>1. job' = Idle /\ packet' = Idle /\ runs' = runs /\ RunInv
  BY DEF Summarise, Stop, IInv, RunInv
<1> QED
  BY <1>1 DEF RunInv, Idle, Active

LEMMA RunStep == ASSUME IInv, [Next]_vars PROVE RunInv'
<1>1. Tick /\ RunInv
  BY Ticks DEF IInv
<1>2. CASE UNCHANGED <<runs, job, packet, reports>>
  BY <1>1, <1>2, RunStays
<1>3. \/ UNCHANGED <<runs, job, packet, reports>>
      \/ Start \/ Digest \/ Spawn
      \/ PacketCommand \/ PacketReady \/ (\E v \in Values : PacketObserve(v))
      \/ (\E claim \in Values : PacketResult(claim))
      \/ ScopeResult \/ (\E log \in BootLogs : VMResult(log))
      \/ WriteReport \/ Summarise \/ Stop
  BY DEF Next, vars, files, release, Outside, Open, VerifyGate, VerifyCompletion
<1> QED
  BY <1>1, <1>2, <1>3, StartRun, DigestRun, SpawnRun, PacketRun, ResultRun, WriteRun, EndRun

-----------------------------------------------------------------------------
(* Reports, summary, verdict *)

LEMMA ReportsStep == ASSUME IInv, [Next]_vars PROVE ReportsInv'
<1>1. Tick /\ RunInv /\ ReportsInv
  BY Ticks DEF IInv
<1>2. CASE UNCHANGED <<retention, reports>>
  BY <1>1, <1>2, ReportsStay
<1>3. CASE retention' = ledger /\ UNCHANGED reports
  BY <1>1, <1>3, ReportStays DEF ReportsInv, Tick, IInv, ScopeTypeOK
<1>4. CASE /\ retention' = retention /\ job.pc = "report"
           /\ reports' = [reports EXCEPT ![Gate] = Torn]
  BY <1>1, <1>4, ReportStays DEF ReportsInv, Tick, Torn
<1>5. CASE WriteReport
  <2>1. /\ job \in Running /\ Gate \in Named13 /\ job.pc = "report" /\ tree' = tree
        /\ retention' = retention /\ reports' = [reports EXCEPT ![Gate] = Report]
    BY <1>1, <1>5, RunTyped DEF WriteReport, Active, scopeVars
  <2>2. /\ Report.kind = "report" /\ Report.run = runs /\ Report.gate = Gate
        /\ Report.attestations = job.attestations /\ Report.observed = job.observed
        /\ Report.support = retention
    BY DEF Report
  <2>3. runs \in 1..MaxRuns
    BY <1>1, <2>1, ReleaseAssumption DEF ReleaseAssumption, RunInv
  <2>4. IsReport(Report)
    BY <1>1, <2>1, <2>2, <2>3 DEF IsReport, RunInv, Active, ReportsInv, Running
  <2>5. Gate = "V-SCOPE" => Cleared(Report)
    BY <1>1, <2>1 DEF RunInv, Active, Cleared, Report
  <2>6. SoundReport(Report, Gate, tree)
    BY <1>1, <2>1, <2>2, <2>4, <2>5 DEF SoundReport, RunInv, Active, Running
  <2> QED
    BY <1>1, <2>1, <2>2, <2>6 DEF ReportsInv
<1>6. \/ UNCHANGED <<retention, reports>>
      \/ retention' = ledger /\ UNCHANGED reports
      \/ /\ retention' = retention /\ job.pc = "report"
         /\ reports' = [reports EXCEPT ![Gate] = Torn]
      \/ WriteReport
  BY DEF Next, vars, files, release, Outside, Start, Digest, Spawn, PacketCommand, PacketReady,
         PacketObserve, PacketResult, ScopeResult, VMResult, Summarise, Stop, Open, VerifyGate,
         VerifyCompletion
<1> QED
  BY <1>2, <1>3, <1>4, <1>5, <1>6

LEMMA SummaryStep == ASSUME IInv, [Next]_vars PROVE SummaryInv'
<1>1. Tick /\ RunInv /\ ReportsInv /\ SummaryInv /\ ScopeTypeOK
  BY Ticks DEF IInv
<1>2. CASE UNCHANGED summary
  BY <1>1, <1>2, SummaryStays
<1>3. CASE summary' = Torn
  BY <1>3 DEF SummaryInv, Torn
<1>4. CASE Summarise
  <2>1. /\ summary'.kind = "summary" /\ summary'.run = runs /\ summary'.source = tree
        /\ summary'.gates = [g \in Present |-> reports[g]] /\ tree' = tree
        /\ job.pc = "summary"
    BY <1>4 DEF Summarise, scopeVars
  <2>2. tree \in 1..tree
    BY <1>1, TreesCounted DEF ScopeTypeOK
  <2>3. ASSUME NEW g \in Present
        PROVE  reports[g].run = runs /\ SoundReport(reports[g], g, tree)
    BY <1>1, <2>1, <2>3 DEF Present, RunInv, Reported, ReportsInv
  <2>4. DOMAIN summary'.gates = Present /\ Present \subseteq Named13
    BY <2>1 DEF Present
  <2>5. ASSUME NEW g \in Named13, g \in DOMAIN summary'.gates
        PROVE  /\ summary'.gates[g].run = summary'.run
               /\ SoundReport(summary'.gates[g], g, summary'.source)
    BY <2>1, <2>3, <2>4, <2>5
  <2>6. SoundSummary(summary)'
    BY <2>1, <2>2, <2>4, <2>5 DEF SoundSummary
  <2> QED
    BY <2>1, <2>6 DEF SummaryInv
<1>5. UNCHANGED summary \/ summary' = Torn \/ Summarise
  BY DEF Next, vars, files, release, Outside, Start, Digest, Spawn, PacketCommand, PacketReady,
         PacketObserve, PacketResult, ScopeResult, VMResult, WriteReport, Stop, Open, VerifyGate,
         VerifyCompletion
<1> QED
  BY <1>2, <1>3, <1>4, <1>5

LEMMA VerifiedRan ==
  ASSUME NEW r, NEW g, NEW v \in Nat, NEW w \in Nat, v <= w,
         SoundReport(r, g, v), Qualifies(r, w)
  PROVE  RanOn(r, v)
<1>1. ASSUME NEW i \in DOMAIN r.attestations
      PROVE  r.attestations[i].began = v /\ r.attestations[i].ended = v
  <2>1. r.attestations[i] \in Attestation
    BY <1>1, AttestationAt DEF SoundReport, IsReport
  <2>2. /\ r.attestations[i].source \in Nat /\ r.attestations[i].began \in Nat
        /\ r.attestations[i].ended \in Nat
    BY <2>1, TreesCounted DEF Attestation, Version
  <2>3. r.attestations[i].source = w
    BY <1>1 DEF Qualifies, Attested
  <2>4. Past(r.attestations[i], v)
    BY <1>1 DEF SoundReport, AllPast
  <2> QED
    BY <2>2, <2>3, <2>4 DEF Past
<1> QED
  BY <1>1 DEF RanOn

LEMMA CheckStep == ASSUME IInv, [Next]_vars PROVE CheckInv'
<1>1. Tick /\ SummaryInv /\ CheckInv /\ ScopeTypeOK
  BY Ticks DEF IInv
<1>2. CASE UNCHANGED check
  BY <1>1, <1>2, CheckStays
<1>3. CASE check' = Idle
  BY <1>3 DEF CheckInv, Idle
<1>4. CASE Open
  <2>1. /\ check' = [pc |-> "gates", summary |-> summary, judged |-> <<>>]
        /\ SoundSummary(summary)
    BY <1>1, <1>4 DEF Open, SummaryInv
  <2>2. SoundSummary(summary)'
    BY <1>1, <1>4, <2>1, SummarySound DEF Open, release, files
  <2>3. UNCHANGED summary
    BY <1>4 DEF Open, release, files
  <2> QED
    BY <2>1, <2>2, <2>3 DEF CheckInv, SoundSummary
<1>5. CASE VerifyGate /\ check' # Idle
  <2>1. PICK i \in DOMAIN Gates :
          LET g == Gates[i] IN
          /\ g \in DOMAIN check.summary.gates \ DOMAIN check.judged
          /\ Bound(check.summary.gates[g]) /\ Qualifies(reports[g], tree)
          /\ check' = [check EXCEPT !.judged =
                         [h \in DOMAIN @ \cup {g} |-> IF h = g THEN reports[g] ELSE @[h]]]
    BY <1>5 DEF VerifyGate, Refuse
  <2>2. PICK g : g = Gates[i]
    OBVIOUS
  <2>3. /\ check.pc = "gates" /\ SoundSummary(check.summary) /\ UNCHANGED <<tree, reports>>
        /\ g \in DOMAIN check.summary.gates
    BY <1>1, <1>5, <2>1, <2>2 DEF CheckInv, VerifyGate, scopeVars, release, files
  <2>4. check.summary.gates[g] = reports[g] /\ SoundReport(reports[g], g, check.summary.source)
    BY <2>1, <2>2, <2>3 DEF SoundSummary, SoundReport, Bound
  <2>5. RanOn(reports[g], check.summary.source)
    BY <1>1, <2>1, <2>2, <2>3, <2>4, VerifiedRan, TreesCounted DEF SoundSummary, Tick
  <2>6. /\ check'.pc = "gates" /\ check'.summary = check.summary
        /\ check'.judged = [h \in DOMAIN check.judged \cup {g} |->
                              IF h = g THEN reports[g] ELSE check.judged[h]]
    BY <2>1, <2>2, <2>3 DEF CheckInv
  <2>7. SoundSummary(check.summary)'
    BY <2>3, <2>6 DEF SoundSummary
  <2>8. DOMAIN check'.judged \subseteq DOMAIN check'.summary.gates
    BY <1>1, <2>3, <2>6 DEF CheckInv
  <2>9. ASSUME NEW h \in DOMAIN check'.judged
        PROVE  /\ check'.judged[h] = check'.summary.gates[h]
               /\ RanOn(check'.judged[h], check'.summary.source)
               /\ h \notin Direct => Combined(h, check'.judged[h].observed)
    <3>1. CASE h = g
      <4>1. g \notin Direct => Combined(g, reports[g].observed)
        BY <2>1, <2>2, <2>4 DEF Qualifies, SoundReport
      <4> QED
        BY <2>4, <2>5, <2>6, <3>1, <4>1
    <3>2. CASE h # g
      BY <1>1, <2>3, <2>6, <2>9, <3>2 DEF CheckInv
    <3> QED
      BY <3>1, <3>2
  <2> QED
    BY <2>6, <2>7, <2>8, <2>9 DEF CheckInv, RanOn, Combined
<1>6. UNCHANGED check \/ check' = Idle \/ Open \/ VerifyGate
  BY DEF Next, vars, files, release, Outside, Start, Digest, Spawn, PacketCommand, PacketReady,
         PacketObserve, PacketResult, ScopeResult, VMResult, WriteReport, Summarise, Stop,
         VerifyCompletion, Refuse
<1> QED
  BY <1>2, <1>3, <1>4, <1>5, <1>6

\* A ledger that was made from the inventory beside it pairs every path and every member
\* with its own record, so that what it clears is what it deletes.
LEMMA ClearedIsClean ==
  ASSUME NEW v, NEW led, Clears(v, <<led, led>>)
  PROVE  /\ \A p \in Tracked(led) : PathAction(led, p) = "DELETE" => p \notin Tracked(v)
         /\ \A m \in Members(led) : MemberAction(m) = "DELETE" => m \notin Members(v)
<1>1. Remaining(v, led, led) = {} /\ RemainingMembers(v, led) = {}
  BY DEF Clears
<1>2. ASSUME NEW p \in Tracked(led), PathAction(led, p) = "DELETE", p \in Tracked(v)
      PROVE  FALSE
  <2>1. PICK i \in DOMAIN Trees[led].paths : p = Trees[led].paths[i]
    BY <1>2 DEF Tracked
  <2>2. /\ Listed(led, "tracked_paths") = Trees[led].paths
        /\ Action(led, "tracked_paths", i) = PathAction(led, p)
    BY <2>1 DEF Listed, Action
  <2>3. <<p, "DELETE">> \in {<<Listed(led, "tracked_paths")[j], Action(led, "tracked_paths", j)>> :
                               j \in DOMAIN Listed(led, "tracked_paths")}
    BY <1>2, <2>1, <2>2
  <2>4. <<p, "DELETE">> \in Remaining(v, led, led)
    BY <1>2, <2>3 DEF Remaining, PathClasses
  <2> QED
    BY <1>1, <2>4
<1>3. ASSUME NEW m \in Members(led), MemberAction(m) = "DELETE"
      PROVE  m \notin Members(v)
  BY <1>1, <1>3 DEF RemainingMembers
<1> QED
  BY <1>2, <1>3

LEMMA AcceptedStep == ASSUME IInv, [Next]_vars PROVE AcceptedInv'
<1>1. CheckInv /\ AcceptedInv
  BY DEF IInv
<1>2. CASE UNCHANGED accepted
  BY <1>1, <1>2, AcceptedStays
<1>3. CASE /\ check.pc = "gates" /\ DOMAIN check.judged = DOMAIN check.summary.gates
           /\ Completes(check.summary)
           /\ accepted' = [kind |-> "accepted", summary |-> check.summary,
                           judged |-> check.judged]
  <2>1. /\ accepted'.kind = "accepted" /\ accepted'.summary = check.summary
        /\ accepted'.judged = check.judged
    BY <1>3
  <2>2. ASSUME NEW g \in DOMAIN check.judged
        PROVE  /\ check.judged[g].run = check.summary.run
               /\ RanOn(check.judged[g], check.summary.source)
    BY <1>1, <1>3, <2>2 DEF CheckInv, SoundSummary
  <2>3. AcceptedIsOneRun' /\ AcceptedRanOnTree'
    BY <2>1, <2>2 DEF AcceptedIsOneRun, AcceptedRanOnTree, Judged, RanOn
  <2>4. ASSUME NEW g \in DOMAIN check.judged, check.judged[g].gate = "V-SCOPE",
               check.judged[g].judged[1] = check.judged[g].judged[2]
        PROVE  Clears(check.summary.source,
                      <<check.judged[g].judged[2], check.judged[g].judged[2]>>)
    <3> DEFINE r == check.judged[g]
    <3>1. SoundReport(r, "V-SCOPE", check.summary.source)
      BY <1>1, <1>3, <2>4 DEF CheckInv, SoundSummary, SoundReport
    <3>2. 1 \in DOMAIN r.attestations
      BY <3>1, AttestationAt DEF SoundReport, IsReport, Commands, Direct
    <3>3. r.attestations[1].ended = check.summary.source
      BY <2>2, <3>2 DEF RanOn
    <3>4. Clears(check.summary.source, r.judged)
      BY <3>1, <3>3 DEF SoundReport, Cleared
    <3> QED
      BY <2>4, <3>4 DEF Clears
  <2>5. AcceptedScopeIsClean'
    BY <2>1, <2>4, ClearedIsClean DEF AcceptedScopeIsClean, Judged
  <2>6. ASSUME NEW g \in DOMAIN check.judged
        PROVE  LET r == check.judged[g] IN
                 \/ r.gate \in Direct \cup Flags
                 \/ r.gate \notin ZeroGates /\ Len(Packets[r.gate]) = 1
                 \/ \A i \in DOMAIN r.observed : r.observed[i] = 0
    <3> DEFINE r == check.judged[g]
    <3>1. SoundReport(r, g, check.summary.source) /\ r = check.summary.gates[g]
      BY <1>1, <1>3, <2>6 DEF CheckInv, SoundSummary
    <3>2. /\ r.gate = g /\ r.observed \in Seq(Nat) /\ g \in Named13
          /\ Len(r.observed) = Commands(g)
      BY <3>1 DEF SoundReport, IsReport
    <3> SUFFICES ASSUME g \notin Direct, g \notin Flags, g \in ZeroGates \/ Len(Packets[g]) # 1
                 PROVE  \A i \in DOMAIN r.observed : r.observed[i] = 0
      BY <3>2
    <3>3. Combined(g, r.observed)
      BY <1>1, <1>3, <2>6 DEF CheckInv
    <3>4. \A i \in DOMAIN r.observed : r.observed[i] = r.observed[1]
      BY <3>3 DEF Combined
    <3>5. CASE g \in ZeroGates
      BY <1>3, <3>1, <3>4, <3>5 DEF Completes
    <3>6. CASE Len(Packets[g]) # 1
      <4>1. Len(r.observed) = Len(Packets[g]) /\ Len(Packets[g]) \in Nat \ {0}
        BY <3>2, ReleaseAssumption DEF ReleaseAssumption, Commands, Direct
      <4>2. Len(r.observed) > 1
        <5>1. PICK n \in Nat \ {0} : n = Len(Packets[g])
          BY <4>1
        <5>2. n # 1
          BY <3>6, <5>1
        <5>3. n > 1
          BY <5>2
        <5> QED
          BY <4>1, <5>1, <5>3
      <4>3. Derive("sum_values", r.observed) = r.observed[1]
        BY <3>3 DEF Combined, Operation
      <4>4. r.observed[1] = 0
        BY <3>2, <3>4, <4>2, <4>3, AlikeClaimsAreZero
      <4> QED
        BY <3>4, <4>4
    <3> QED
      BY <3>5, <3>6
  <2>7. AcceptedCountsAreZero'
    BY <2>1, <2>6 DEF AcceptedCountsAreZero, Judged
  <2> QED
    BY <2>1, <2>3, <2>5, <2>7 DEF AcceptedInv
<1>4. \/ UNCHANGED accepted
      \/ /\ check.pc = "gates" /\ DOMAIN check.judged = DOMAIN check.summary.gates
         /\ Completes(check.summary)
         /\ accepted' = [kind |-> "accepted", summary |-> check.summary,
                         judged |-> check.judged]
  BY DEF Next, vars, files, release, Outside, Start, Digest, Spawn, PacketCommand, PacketReady,
         PacketObserve, PacketResult, ScopeResult, VMResult, WriteReport, Summarise, Stop, Open,
         VerifyGate, VerifyCompletion, Refuse
<1> QED
  BY <1>2, <1>3, <1>4

LEMMA Initially == ASSUME Init PROVE IInv
<1>1. ScopeTypeOK
  BY TreesCounted DEF Init, ScopeInit, ScopeTypeOK
<1>2. RunInv
  BY ReleaseAssumption DEF ReleaseAssumption, Init, Idle, RunInv, Active
<1>3. ReportsInv
  BY TreesCounted DEF Init, Missing, ReportsInv
<1>4. SummaryInv /\ CheckInv
  BY DEF Init, Missing, Idle, SummaryInv, CheckInv
<1>5. AcceptedInv
  BY DEF Init, Missing, AcceptedInv, AcceptedIsOneRun, AcceptedRanOnTree, AcceptedScopeIsClean,
         AcceptedCountsAreZero, Released
<1> QED
  BY <1>1, <1>2, <1>3, <1>4, <1>5 DEF IInv

LEMMA Invariant == Spec => []IInv
<1>1. IInv /\ [Next]_vars => IInv'
  <2> SUFFICES ASSUME IInv, [Next]_vars PROVE IInv'
    OBVIOUS
  <2>1. ScopeTypeOK'
    BY TreeStep DEF IInv
  <2> QED
    BY <2>1, RunStep, ReportsStep, SummaryStep, CheckStep, AcceptedStep DEF IInv
<1> QED
  BY <1>1, Initially, PTL DEF Spec

\* TypeOK for any gates, packets and trees: each report holds one measurement and one
\* attestation for every command of its gate (run_release, write_report).
THEOREM TypeCorrect == Spec => []TypeOK
<1>1. IInv => TypeOK
  <2> SUFFICES ASSUME IInv PROVE TypeOK
    OBVIOUS
  <2>1. job.pc \in {"idle", "command", "spawn", "process", "report", "summary"}
    BY DEF IInv, RunInv, Running, Active, Idle
  <2>2. packet.pc = "running" <=> job.pc = "process"
    BY DEF IInv, RunInv, Process, Idle
  <2> QED
    BY <2>1, <2>2 DEF IInv, RunInv, ReportsInv, SoundReport, Commands, SummaryInv, CheckInv,
                      AcceptedInv, TypeOK
<1> QED
  BY <1>1, Invariant, PTL

\* AcceptedIsOneRun for any number of runs, wherever each stops: verify accepts no
\* report but those of the run that wrote the summary.
THEOREM AcceptedFromOneRun == Spec => []AcceptedIsOneRun
<1>1. IInv => AcceptedIsOneRun
  BY DEF IInv, AcceptedInv
<1> QED
  BY <1>1, Invariant, PTL

\* AcceptedRanOnTree for any succession of trees: command reads the digest before it
\* starts a process and verify compares it last, so that all of it was on one tree.
THEOREM AcceptedOnTree == Spec => []AcceptedRanOnTree
<1>1. IInv => AcceptedRanOnTree
  BY DEF IInv, AcceptedInv
<1> QED
  BY <1>1, Invariant, PTL

\* AcceptedScopeIsClean for any trees and any way their text is classified: a report is
\* judged again only on the tree its verdict was about, and with a ledger made from the
\* inventory beside it the pairing by position is by identity (verify_v2_removal.py).
THEOREM AcceptedScope == Spec => []AcceptedScopeIsClean
<1>1. IInv => AcceptedScopeIsClean
  BY DEF IInv, AcceptedInv
<1> QED
  BY <1>1, Invariant, PTL

\* AcceptedCountsAreZero for any packets and values: claims that agree are the sum of what
\* they all measured only if each of them is zero (combine_packet_results, verify).
THEOREM AcceptedCounts == Spec => []AcceptedCountsAreZero
<1>1. IInv => AcceptedCountsAreZero
  BY DEF IInv, AcceptedInv
<1> QED
  BY <1>1, Invariant, PTL

=============================================================================
