----------------------------- MODULE StartupProofs -----------------------------
(***************************************************************************)
(* Proofs about Startup, for every list of any length, every capacity of   *)
(* the semaphore and every setting: what main goes on with (a flag given   *)
(* with its default value may lose to the file, and the file's metrics     *)
(* port is not checked), what a selection returns however its goroutines   *)
(* interleave, and that it is never stuck.                                 *)
(***************************************************************************)
EXTENDS Startup, FiniteSetTheorems, TLAPS

\* The parts of main that have read the file, and those that have merged it.
PastFile == {"merge", "mode", "fetch", "select", "direct"}
PastMerge == PastFile \ {"merge"}

MainOK ==
  /\ main \in PastFile \cup {"args", "file", "stopped"}
  /\ setting \in Settings /\ {flag, file} \subseteq Inputs(setting)
  /\ {hasFile, argLink, argURL, env} \subseteq BOOLEAN /\ named \subseteq Sources
  /\ effective \in Values

\* What main went past was accepted, and the merge has been done once.
MergedInv ==
  /\ main \notin {"args", "stopped"} => FlagAccepted(setting, flag)
  /\ main \in PastFile /\ hasFile => FileAccepted(setting, file)
  /\ main \in PastMerge =>
       effective = IF hasFile THEN Effective(setting, flag, file) ELSE FlagValue(setting, flag)

\* The types of the selector, without the range of the semaphore.
ListOK ==
  /\ links \in Seq(Lines) /\ byLatency \in BOOLEAN /\ maxConcurrent \in Int
  /\ phase \in {"before", "selecting", "selected", "failed"}
  /\ next \in 1 .. Len(links) + 1 /\ panicked \in BOOLEAN

ProbesOK ==
  /\ probe \in [DOMAIN links ->
                  {"none", "probing", "available", "over", "released", "done"}]
  /\ rank \in [DOMAIN links -> 0 .. MaxRank]
  /\ found \in Seq(DOMAIN links)

\* What is selected from can be taken apart.
LinksInv ==
  /\ \A i \in DOMAIN links : Accepted(links[i])
  /\ phase = "before" => links = <<>> /\ next = 1 /\ sem = 0 /\ found = <<>>
  /\ ~panicked

\* A goroutine that was not started has done nothing, one that measured has answered.
ProbesInv ==
  \A i \in DOMAIN links :
    /\ i >= next => probe[i] = "none"
    /\ rank[i] # 0 => probe[i] \in {"available", "over", "released", "done"}
    /\ probe[i] = "available" => rank[i] # 0

\* What a slice holds, each once, and none before a better one.
Held(s) == {s[n] : n \in DOMAIN s}
Distinct(s) == \A n, o \in DOMAIN s : n # o => s[n] # s[o]
BestFirst(s) == \A n, o \in DOMAIN s : n < o => ~Better(s[o], s[n])

\* The slice holds each server that answered once its goroutine has appended it.
Appended == {i \in DOMAIN links : rank[i] # 0 /\ probe[i] # "available"}
FoundInv == Held(found) = Appended /\ Distinct(found)

\* A token for each goroutine that has not given it back.
Holders == {i \in DOMAIN links : probe[i] \in {"probing", "available", "over"}}
SemInv == sem = Cardinality(Holders)

SelectorInv ==
  ListOK /\ ProbesOK /\ LinksInv /\ ProbesInv /\ FoundInv /\ SemInv /\ SelectionIsExact

IInv == MainOK /\ MergedInv /\ SelectorInv
------------------------------------------------------------------------------
(***************************************************************************)
(* Settings.                                                               *)
(***************************************************************************)
\* The names of the settings, one by one.
Names ==
  {"maxServers", "timeout", "refreshInterval", "metricsPort", "maxRetries", "minBackoff",
   "maxBackoff", "backoffFactor", "logLevel", "logFormat", "logMaxSize", "logMaxBackups",
   "logMaxAge", "enableIPv6", "enableDNSProtection", "enableKillSwitch"}

LEMMA SettingNames == Settings = Names
BY DEF Settings, Rules, Names

\* What a file may hold and main looks at, a flag could have said: except for the port.
LEMMA FileWithinFlag ==
  ASSUME NEW s \in Settings, s # "metricsPort"
  PROVE  Rules[s].arrives \cap Rules[s].file \subseteq Rules[s].flag \cup {Rules[s].default}
<1> USE DEF Rules, Rule, Given, Numbers, Positive
<1>1. CASE s \in {"maxServers", "logMaxSize"}
  BY <1>1 DEF MaxServers, LogMaxSize
<1>2. CASE s \in {"logMaxBackups", "logMaxAge"}
  BY <1>2 DEF LogMaxBackups, LogMaxAge
<1>3. CASE s \in {"logLevel", "logFormat"}
  BY <1>3 DEF LogLevel, LogFormat
<1>4. CASE s \in {"timeout", "refreshInterval"}
  BY <1>4 DEF Timeout, RefreshInterval
<1>5. CASE s \in {"maxRetries", "backoffFactor"}
  BY <1>5 DEF MaxRetries, BackoffFactor
<1>6. CASE s \in {"minBackoff", "maxBackoff"}
  BY <1>6 DEF MinBackoff, MaxBackoff
<1>7. CASE s \in {"enableIPv6", "enableDNSProtection", "enableKillSwitch"}
  BY <1>7 DEF Switch
<1> QED
  BY <1>1, <1>2, <1>3, <1>4, <1>5, <1>6, <1>7, SettingNames DEF Names

\* A default is a value.
LEMMA DefaultKnown ==
  ASSUME NEW s \in Settings
  PROVE  Rules[s].default \in {"usual", "zero"}
BY SettingNames DEF Names, Rules, Rule, MaxServers, LogMaxSize, LogMaxBackups, LogMaxAge, LogLevel,
   LogFormat, Timeout, RefreshInterval, MetricsPort, MaxRetries, MinBackoff, MaxBackoff,
   BackoffFactor, Switch

LEMMA InputsKnown ==
  ASSUME NEW s \in Settings
  PROVE  Inputs(s) \subseteq Values
<1>1. CASE Rules[s] = Switch
  BY <1>1 DEF Inputs, Values, Given
<1>2. CASE Rules[s] # Switch /\ Rules[s] = LogLevel
  BY <1>2 DEF Inputs, Values, Given
<1>3. CASE Rules[s] # Switch /\ Rules[s] # LogLevel
  BY <1>3 DEF Inputs
<1> QED
  BY <1>1, <1>2, <1>3

\* The variable of main keeps its type, before the merge and after it.
LEMMA EffectiveKnown ==
  ASSUME MainOK
  PROVE  FlagValue(setting, flag) \in Values /\ Effective(setting, flag, file) \in Values
BY DefaultKnown, InputsKnown DEF MainOK, FlagValue, FileValue, Effective, Values, Given

\* The invariant of main gives what the runs check.
LEMMA Decided ==
  ASSUME MainOK, MergedInv
  PROVE  SettingDecided
<1> DEFINE default == Rules[setting].default
           fileSays == /\ hasFile /\ effective = FileValue(setting, file)
                       /\ FileValue(setting, file) \in Rules[setting].arrives
                       /\ FlagValue(setting, flag) = default
<1> SUFFICES ASSUME Merged
             PROVE  /\ flag \notin {"absent", "malformed"} =>
                         \/ effective = flag
                         \/ flag = default /\ hasFile /\ effective = FileValue(setting, file)
                    /\ \/ effective \in Rules[setting].flag \cup {default}
                       \/ /\ setting = "metricsPort" /\ hasFile
                          /\ file = "large" /\ effective = "large"
  BY DEF SettingDecided
<1>1. /\ FlagAccepted(setting, flag)
      /\ hasFile => FileAccepted(setting, file)
      /\ fileSays \/ effective = FlagValue(setting, flag)
  BY DEF MergedInv, Merged, PastMerge, PastFile, Effective
<1>2. ASSUME flag \notin {"absent", "malformed"}
      PROVE  \/ effective = flag
             \/ flag = default /\ hasFile /\ effective = FileValue(setting, file)
  BY <1>1, <1>2 DEF FlagValue
<1>3. FlagValue(setting, flag) \in Rules[setting].flag \cup {default}
  BY <1>1 DEF FlagAccepted, FlagValue
<1>4. ASSUME setting # "metricsPort"
      PROVE  effective \in Rules[setting].flag \cup {default}
  <2>1. CASE fileSays
    BY <1>1, <1>4, <2>1, FileWithinFlag DEF FileAccepted, MainOK
  <2>2. CASE effective = FlagValue(setting, flag)
    BY <1>3, <2>2
  <2> QED
    BY <1>1, <2>1, <2>2
<1>5. ASSUME setting = "metricsPort"
      PROVE  \/ effective \in Rules[setting].flag \cup {default}
             \/ hasFile /\ file = "large" /\ effective = "large"
  <2>1. CASE fileSays
    <3>1. FileValue(setting, file) \in {"one", "usual", "large"}
      BY <1>5, <2>1 DEF Rules, MetricsPort, Rule, Positive
    <3>2. {"one", "usual"} \subseteq Rules[setting].flag /\ default = "zero"
      BY <1>5 DEF Rules, MetricsPort, Rule
    <3>3. FileValue(setting, file) = "large" => file = "large"
      BY <3>2 DEF FileValue
    <3> QED
      BY <2>1, <3>1, <3>2, <3>3
  <2>2. CASE effective = FlagValue(setting, flag)
    BY <1>3, <2>2
  <2> QED
    BY <1>1, <2>1, <2>2
<1> QED
  BY <1>2, <1>4, <1>5

\* The capacity of the semaphore is never below zero.
LEMMA LimitPositive ==
  ASSUME MainOK, MergedInv, main = "fetch"
  PROVE  Limit \in Nat \ {0}
<1>1. setting = "maxServers" => effective \in Positive
  <2>1. setting = "maxServers" =>
          Rules[setting].flag = Positive /\ Rules[setting].default = "usual"
    BY DEF Rules, MaxServers, Rule
  <2> QED
    BY <2>1, Decided DEF SettingDecided, Merged, Positive
<1>2. setting = "maxServers" => Number(effective) \in Nat \ {0}
  BY <1>1, SelectorAssumption, StartupAssumption DEF Positive, Number
<1> QED
  BY <1>2, SelectorAssumption DEF Limit
------------------------------------------------------------------------------
(***************************************************************************)
(* Lists.                                                                  *)
(***************************************************************************)
\* ParseLinksFromRaw returns lines that it accepts and none else.
LEMMA ParsedAccepted ==
  ASSUME NEW lines \in Seq(Lines), NEW list \in Parsed(lines)
  PROVE  list \in Seq(Lines) /\ \A i \in DOMAIN list : Accepted(list[i])
<1> DEFINE kept == {n \in DOMAIN lines : Accepted(lines[n])}
<1>1. kept \subseteq 1 .. Len(lines) /\ Len(lines) \in Nat
  OBVIOUS
<1>2. IsFiniteSet(1 .. Len(lines))
  BY <1>1, FS_Interval
<1>3. IsFiniteSet(kept) /\ Cardinality(kept) \in Nat
  BY <1>1, <1>2, FS_Subset, FS_CardinalityType
<1>4. PICK p \in [1 .. Cardinality(kept) -> kept] : list = [i \in DOMAIN p |-> lines[p[i]]]
  BY DEF Parsed
<1> HIDE DEF kept
<1>5. \A n \in kept : lines[n] \in Lines /\ Accepted(lines[n])
  BY <1>1 DEF kept
<1>6. list \in [1 .. Cardinality(kept) -> Lines]
  BY <1>4, <1>5
<1>7. list \in Seq(Lines)
  BY <1>3, <1>6
<1> QED
  BY <1>4, <1>5, <1>7

\* The sort moves: what the slice held, each once, and none before a better one.
LEMMA SortedExact ==
  ASSUME NEW S, NEW s \in Seq(S), NEW t \in Sorted(s), Distinct(s)
  PROVE  t \in Seq(S) /\ Held(t) = Held(s) /\ Distinct(t) /\ BestFirst(t)
<1> USE DEF Held, Distinct, BestFirst
<1> DEFINE D == DOMAIN s
           T == {s[n] : n \in DOMAIN s}
<1>1. /\ t \in [D -> T]
      /\ \A n \in D : \E o \in D : t[o] = s[n]
      /\ \A n, o \in D : n < o => ~Better(t[o], t[n])
  BY DEF Sorted
<1>2. D = 1 .. Len(s) /\ Len(s) \in Nat /\ T \subseteq S
  OBVIOUS
<1>3. IsFiniteSet(D)
  BY <1>2, FS_Interval
<1>4. s \in Bijection(D, T)
  BY DEF Bijection, Injection, Surjection, IsInjective
<1>5. t \in Surjection(D, T)
  BY <1>1 DEF Surjection
<1>6. ExistsBijection(D, T)
  BY <1>4 DEF ExistsBijection
<1>7. Cardinality(D) = Cardinality(T)
  BY <1>3, <1>6, FS_Bijection
<1>8. t \in Injection(D, T)
  BY <1>3, <1>5, <1>7, FS_SurjSameCardinalityImpliesInj
<1>9. \A n, o \in D : n # o => t[n] # t[o]
  BY <1>8 DEF Injection, IsInjective
<1>10. t \in Seq(S) /\ DOMAIN t = D
  BY <1>1, <1>2
<1>11. {t[n] : n \in D} = T
  BY <1>1
<1> QED
  BY <1>1, <1>9, <1>10, <1>11

\* What the parser lets through can be taken apart.
LEMMA AcceptedExtracted == \A line : Accepted(line) => Extracted(line)
BY DEF Accepted, Extracted
------------------------------------------------------------------------------
(***************************************************************************)
(* The steps of a selection.                                               *)
(***************************************************************************)
\* Nobody holds a token, nobody has answered, before the first goroutine.
LEMMA NothingStarted ==
  ASSUME ListOK, ProbesOK, found = <<>>, sem = 0,
         \A i \in DOMAIN links : probe[i] = "none" /\ rank[i] = 0
  PROVE  ProbesInv /\ FoundInv /\ SemInv
<1>1. Holders = {} /\ Appended = {}
  BY DEF Holders, Appended
<1>2. SemInv
  BY <1>1, FS_EmptySet DEF SemInv
<1>3. FoundInv
  BY <1>1 DEF FoundInv, Held, Distinct
<1> QED
  BY <1>2, <1>3 DEF ProbesInv

LEMMA HoldersFinite ==
  ASSUME ListOK
  PROVE  IsFiniteSet(Holders) /\ Cardinality(Holders) \in 0 .. Len(links)
<1>1. Holders \subseteq 1 .. Len(links) /\ Len(links) \in Nat
  BY DEF ListOK, Holders
<1>2. IsFiniteSet(1 .. Len(links)) /\ Cardinality(1 .. Len(links)) = Len(links)
  BY <1>1, FS_Interval
<1>3. IsFiniteSet(Holders) /\ Cardinality(Holders) <= Len(links)
  BY <1>1, <1>2, FS_Subset
<1> QED
  BY <1>1, <1>3, FS_CardinalityType

LEMMA SelectorStarts ==
  ASSUME SelectorInit
  PROVE  SelectorInv
<1> USE DEF SelectorInit
<1>1. ListOK /\ ProbesOK /\ LinksInv
  <2>1. DOMAIN links = {} /\ Len(links) = 0 /\ links \in Seq(Lines)
    OBVIOUS
  <2>2. ListOK
    <3>1. next \in 1 .. Len(links) + 1
      BY <2>1
    <3>2. maxConcurrent \in Int
      BY SelectorAssumption
    <3>3. byLatency \in BOOLEAN /\ panicked \in BOOLEAN
      OBVIOUS
    <3> QED
      BY <2>1, <3>1, <3>2, <3>3 DEF ListOK
  <2>3. \A S : <<>> \in Seq(S) /\ <<>> \in [DOMAIN links -> S]
    BY <2>1
  <2>4. ProbesOK
    BY <2>3 DEF ProbesOK
  <2> QED
    BY <2>1, <2>2, <2>4 DEF LinksInv
<1>2. ProbesInv /\ FoundInv /\ SemInv
  BY <1>1, NothingStarted
<1>3. SelectionIsExact
  BY DEF SelectionIsExact
<1> QED
  BY <1>1, <1>2, <1>3 DEF SelectorInv

LEMMA SelectKeeps ==
  ASSUME SelectorInv, NEW list \in Seq(Lines), NEW limit \in Nat \ {0}, NEW latency \in BOOLEAN,
         Select(list, limit, latency)
  PROVE  SelectorInv'
<1>1. links' \in Seq(Lines) /\ \A i \in DOMAIN links' : Accepted(links'[i])
  BY ParsedAccepted DEF Select
<1>2. /\ maxConcurrent' = limit /\ byLatency' \in BOOLEAN /\ ~panicked' /\ panicked' \in BOOLEAN
      /\ phase' = IF links' = <<>> THEN "failed" ELSE "selecting"
      /\ next' = 1 /\ sem' = 0 /\ found' = <<>>
      /\ probe' = [i \in DOMAIN links' |-> "none"]
      /\ rank' = [i \in DOMAIN links' |-> 0]
  BY DEF Select, SelectorInv, LinksInv, ListOK
<1>3. ListOK'
  BY <1>1, <1>2 DEF ListOK
<1>4. ProbesOK'
  BY <1>2, SelectorAssumption DEF ProbesOK
<1>5. LinksInv'
  BY <1>1, <1>2 DEF LinksInv
<1>6. ProbesInv' /\ FoundInv' /\ SemInv'
  <2>1. Holders' = {} /\ Appended' = {}
    BY <1>2 DEF Holders, Appended
  <2>2. SemInv'
    BY <1>2, <2>1, FS_EmptySet DEF SemInv
  <2>3. FoundInv'
    BY <1>2, <2>1 DEF FoundInv, Held, Distinct
  <2> QED
    BY <1>2, <2>2, <2>3 DEF ProbesInv
<1>7. SelectionIsExact'
  BY <1>2 DEF SelectionIsExact
<1> QED
  BY <1>3, <1>4, <1>5, <1>6, <1>7 DEF SelectorInv

LEMMA SpawnKeeps ==
  ASSUME SelectorInv, Spawn
  PROVE  SelectorInv'
<1> USE DEF SelectorInv
<1> DEFINE i == next
<1>1. /\ links \in Seq(Lines) /\ i \in 1 .. Len(links) /\ Len(links) \in Nat /\ i \in DOMAIN links
      /\ phase = "selecting" /\ sem' = sem + 1 /\ next' = i + 1
      /\ probe' = [probe EXCEPT ![i] = "probing"]
      /\ UNCHANGED <<links, rank, found, phase, panicked, byLatency, maxConcurrent>>
  BY DEF Spawn, ListOK
<1>0. probe[i] = "none" /\ rank[i] = 0
  <2>1. i \in DOMAIN links /\ i >= next
    BY <1>1
  <2> QED
    BY <2>1 DEF ProbesInv
<1> HIDE DEF i
<1>2. ListOK' /\ ProbesOK' /\ LinksInv'
  BY <1>1 DEF ListOK, ProbesOK, LinksInv
<1>3. ProbesInv'
  <2>1. \A j \in DOMAIN links : j \in Int /\ (j >= next' => j >= next /\ j # i)
    BY <1>1 DEF i
  <2>2. \A j \in DOMAIN links : j # i => probe'[j] = probe[j]
    BY <1>1 DEF ProbesOK
  <2>3. probe'[i] = "probing"
    BY <1>1 DEF ProbesOK
  <2> QED
    BY <1>0, <1>1, <2>1, <2>2, <2>3 DEF ProbesInv
<1>4. Appended' = Appended
  BY <1>0, <1>1 DEF ProbesOK, Appended
<1>5. FoundInv'
  BY <1>1, <1>4 DEF FoundInv, Held, Distinct
<1>6. Holders' = Holders \cup {i} /\ i \notin Holders
  BY <1>0, <1>1 DEF ProbesOK, Holders
<1>7. IsFiniteSet(Holders)
  BY HoldersFinite
<1>8. SemInv'
  BY <1>1, <1>6, <1>7, FS_AddElement DEF SemInv
<1>9. SelectionIsExact'
  BY <1>1 DEF SelectionIsExact
<1> QED
  BY <1>2, <1>3, <1>5, <1>8, <1>9

\* A step of a goroutine that appends nothing and touches no token.
LEMMA ProbeMoves ==
  ASSUME SelectorInv, NEW i \in DOMAIN links, phase = "selecting",
         NEW p \in {"available", "over", "done"}, NEW r \in 0 .. MaxRank,
         probe' = [probe EXCEPT ![i] = p], rank' = [rank EXCEPT ![i] = r],
         i < next, p = "available" => r # 0,
         r # 0 /\ p # "available" <=> rank[i] # 0 /\ probe[i] # "available",
         (p = "done") <=> (probe[i] \notin {"probing", "available", "over"}),
         UNCHANGED <<links, byLatency, maxConcurrent, phase, next, sem, found, panicked>>
  PROVE  SelectorInv'
<1> USE DEF SelectorInv
<1>1. ListOK' /\ ProbesOK' /\ LinksInv'
  BY DEF ListOK, ProbesOK, LinksInv
<1>2. ProbesInv'
  <2>1. \A j \in DOMAIN links : j # i => probe'[j] = probe[j] /\ rank'[j] = rank[j]
    BY DEF ProbesOK
  <2>2. probe'[i] = p /\ rank'[i] = r /\ DOMAIN links' = DOMAIN links
    BY DEF ProbesOK
  <2>3. i \in Int /\ next \in Int
    BY DEF ListOK
  <2> QED
    BY <2>1, <2>2, <2>3 DEF ProbesInv
<1>3. Appended' = Appended
  BY DEF ProbesOK, Appended
<1>4. FoundInv'
  BY <1>3 DEF FoundInv, Held, Distinct
<1>5. Holders' = Holders
  BY DEF ProbesOK, Holders
<1>6. SemInv'
  BY <1>5 DEF SemInv
<1>7. SelectionIsExact'
  BY DEF SelectionIsExact
<1> QED
  BY <1>1, <1>2, <1>4, <1>6, <1>7

\* A goroutine that has started is behind the loop.
LEMMA StartedBehind ==
  ASSUME SelectorInv, NEW i \in DOMAIN links, probe[i] # "none"
  PROVE  i < next
<1>1. i \in Int /\ next \in Int /\ ~(i >= next)
  BY DEF SelectorInv, ListOK, ProbesInv
<1> QED
  BY <1>1

\* A goroutine that gets no answer: no link makes it panic.
LEMMA ProbeFailsKeeps ==
  ASSUME SelectorInv, NEW i, ProbeFails(i)
  PROVE  SelectorInv'
<1>1. /\ i \in DOMAIN links /\ phase = "selecting" /\ probe[i] = "probing" /\ i < next
      /\ rank[i] = 0 /\ rank \in [DOMAIN links -> 0 .. MaxRank] /\ 0 \in 0 .. MaxRank
  BY StartedBehind DEF ProbeFails, Probing, SelectorInv, ProbesInv, ProbesOK
<1>2. Extracted(links[i]) /\ ~panicked
  BY <1>1, AcceptedExtracted DEF SelectorInv, LinksInv
<1>3. /\ UNCHANGED <<links, byLatency, maxConcurrent, phase, next, sem, found, panicked>>
      /\ probe' = [probe EXCEPT ![i] = "over"] /\ rank' = rank
  <2>1. panicked = FALSE /\ (~Extracted(links[i]) /\ ~byLatency) = FALSE
    BY <1>2 DEF SelectorInv, ListOK
  <2> QED
    BY <2>1 DEF ProbeFails
<1>4. rank' = [rank EXCEPT ![i] = 0]
  BY <1>1, <1>3
<1> QED
  BY <1>1, <1>3, <1>4, ProbeMoves

LEMMA ProbeAnswersKeeps ==
  ASSUME SelectorInv, NEW i, ProbeAnswers(i)
  PROVE  SelectorInv'
<1>1. /\ i \in DOMAIN links /\ phase = "selecting" /\ probe[i] = "probing" /\ i < next
      /\ rank[i] = 0
  BY StartedBehind DEF ProbeAnswers, Probing, SelectorInv, ProbesInv
<1>2. PICK r \in 1 .. MaxRank : rank' = [rank EXCEPT ![i] = r]
  BY DEF ProbeAnswers
<1>3. r \in 0 .. MaxRank /\ r # 0
  BY <1>2, SelectorAssumption
<1>4. /\ UNCHANGED <<links, byLatency, maxConcurrent, phase, next, sem, found, panicked>>
      /\ probe' = [probe EXCEPT ![i] = "available"]
  BY DEF ProbeAnswers
<1> QED
  BY <1>1, <1>2, <1>3, <1>4, ProbeMoves

LEMMA DoneKeeps ==
  ASSUME SelectorInv, NEW i, Done(i)
  PROVE  SelectorInv'
<1>1. /\ i \in DOMAIN links /\ phase = "selecting" /\ probe[i] = "released" /\ i < next
      /\ rank \in [DOMAIN links -> 0 .. MaxRank] /\ rank[i] \in 0 .. MaxRank
  BY StartedBehind DEF Done, SelectorInv, ProbesOK
<1>2. /\ UNCHANGED <<links, byLatency, maxConcurrent, phase, next, sem, found, panicked>>
      /\ probe' = [probe EXCEPT ![i] = "done"] /\ rank' = rank
  BY DEF Done
<1>3. rank' = [rank EXCEPT ![i] = rank[i]]
  BY <1>1, <1>2
<1> QED
  BY <1>1, <1>2, <1>3, ProbeMoves

\* The slice gets the server that answered, which was not there.
LEMMA AppendKeeps ==
  ASSUME SelectorInv, NEW i, AppendFound(i)
  PROVE  SelectorInv'
<1> USE DEF SelectorInv
<1>1. /\ i \in DOMAIN links /\ phase = "selecting" /\ probe[i] = "available" /\ rank[i] # 0
      /\ i < next /\ i \in Int /\ next \in Int
      /\ found' = Append(found, i) /\ probe' = [probe EXCEPT ![i] = "over"]
      /\ UNCHANGED <<links, byLatency, maxConcurrent, phase, next, sem, rank, panicked>>
  BY StartedBehind DEF AppendFound, ProbesInv, ListOK
<1>2. /\ found \in Seq(DOMAIN links) /\ found' \in Seq(DOMAIN links)
      /\ Len(found) \in Nat /\ DOMAIN found = 1 .. Len(found)
      /\ DOMAIN found' = 1 .. Len(found) + 1
      /\ \A n \in DOMAIN found : found'[n] = found[n] /\ n # Len(found) + 1
      /\ found'[Len(found) + 1] = i
  BY <1>1 DEF ProbesOK
<1>3. ListOK' /\ LinksInv'
  BY <1>1 DEF ListOK, LinksInv
<1>4. ProbesOK'
  BY <1>1, <1>2 DEF ProbesOK
<1>5. \A j \in DOMAIN links : probe'[j] = IF j = i THEN "over" ELSE probe[j]
  BY <1>1 DEF ProbesOK
<1>6. ProbesInv'
  BY <1>1, <1>5 DEF ProbesInv
<1>7. Appended' = Appended \cup {i} /\ i \notin Appended
  BY <1>1, <1>5 DEF Appended
<1>8. DOMAIN found' = DOMAIN found \cup {Len(found) + 1}
  BY <1>2
<1>9. FoundInv'
  <2>1. Held(found)' = Held(found) \cup {i}
    BY <1>2, <1>8 DEF Held
  <2>2. \A n \in DOMAIN found : found[n] # i
    BY <1>7 DEF FoundInv, Held
  <2>3. Distinct(found)'
    BY <1>2, <1>8, <2>2 DEF FoundInv, Distinct
  <2> QED
    BY <1>7, <2>1, <2>3 DEF FoundInv
<1>10. Holders' = Holders
  BY <1>1, <1>5 DEF Holders
<1>11. SemInv' /\ SelectionIsExact'
  BY <1>1, <1>10 DEF SemInv, SelectionIsExact
<1> QED
  BY <1>3, <1>4, <1>6, <1>9, <1>11

\* A token comes back.
LEMMA ReleaseKeeps ==
  ASSUME SelectorInv, NEW i, Release(i)
  PROVE  SelectorInv'
<1> USE DEF SelectorInv
<1>1. /\ i \in DOMAIN links /\ phase = "selecting" /\ probe[i] = "over"
      /\ i < next /\ i \in Int /\ next \in Int
      /\ sem' = sem - 1 /\ probe' = [probe EXCEPT ![i] = "released"]
      /\ UNCHANGED <<links, byLatency, maxConcurrent, phase, next, rank, found, panicked>>
  BY StartedBehind DEF Release, ListOK
<1>2. ListOK' /\ LinksInv' /\ ProbesOK'
  BY <1>1 DEF ListOK, LinksInv, ProbesOK
<1>3. \A j \in DOMAIN links : probe'[j] = IF j = i THEN "released" ELSE probe[j]
  BY <1>1 DEF ProbesOK
<1>4. ProbesInv'
  BY <1>1, <1>3 DEF ProbesInv
<1>5. Appended' = Appended
  BY <1>1, <1>3 DEF Appended
<1>6. Holders' = Holders \ {i} /\ i \in Holders
  BY <1>1, <1>3 DEF Holders
<1>7. IsFiniteSet(Holders)
  BY HoldersFinite
<1>8. SemInv'
  BY <1>1, <1>6, <1>7, FS_RemoveElement DEF SemInv
<1>9. FoundInv' /\ SelectionIsExact'
  BY <1>1, <1>5 DEF FoundInv, Held, Distinct, SelectionIsExact
<1> QED
  BY <1>2, <1>4, <1>8, <1>9

\* The selection ends with all that answered.
LEMMA SelectionDoneKeeps ==
  ASSUME SelectorInv, SelectionDone
  PROVE  SelectorInv'
<1> USE DEF SelectorInv
<1>1. /\ phase = "selecting" /\ \A i \in DOMAIN links : probe[i] = "done"
      /\ phase' = IF found = <<>> THEN "failed" ELSE "selected"
      /\ found = <<>> => found' = found
      /\ found # <<>> => found' \in Sorted(found)
      /\ UNCHANGED <<links, byLatency, maxConcurrent, next, sem, probe, rank, panicked>>
  BY DEF SelectionDone
<1>2. found \in Seq(DOMAIN links) /\ Distinct(found) /\ Held(found) = Appended
  BY DEF ProbesOK, FoundInv
<1>3. /\ found' \in Seq(DOMAIN links) /\ Held(found') = Held(found) /\ Distinct(found')
      /\ found # <<>> => BestFirst(found')
  <2>1. CASE found = <<>>
    BY <1>1, <1>2, <2>1
  <2>2. CASE found # <<>>
    <3>1. found' \in Sorted(found)
      BY <1>1, <2>2
    <3> QED
      BY <1>2, <3>1, SortedExact
  <2> QED
    BY <2>1, <2>2
<1>4. ListOK' /\ ProbesOK' /\ LinksInv' /\ ProbesInv' /\ SemInv' /\ Appended' = Appended
  BY <1>1, <1>3 DEF ListOK, ProbesOK, LinksInv, ProbesInv, SemInv, Holders, Appended
<1>5. FoundInv'
  BY <1>2, <1>3, <1>4 DEF FoundInv, Held, Distinct
<1>6. Appended = {i \in DOMAIN links : rank[i] # 0}
  BY <1>1 DEF Appended
<1>7. SelectionIsExact'
  <2>1. CASE found = <<>>
    <3>1. Appended = {}
      BY <1>2, <2>1 DEF Held
    <3> QED
      BY <1>1, <1>6, <2>1, <3>1 DEF SelectionIsExact
  <2>2. CASE found # <<>>
    <3>1. /\ phase' = "selected"
          /\ {found'[n] : n \in DOMAIN found'} = {i \in DOMAIN links : rank[i] # 0}
      BY <1>1, <1>2, <1>3, <1>6, <2>2 DEF Held
    <3>2. \A n, o \in DOMAIN found' :
            n < o => found'[n] # found'[o] /\ ~(Better(found[o], found[n])')
      <4>1. DOMAIN found' \subseteq Int /\ \A n, o \in DOMAIN found' : n < o => n # o
        BY <1>3
      <4>2. \A n, o \in DOMAIN found' :
              (Better(found[o], found[n])') <=> Better(found'[o], found'[n])
        BY <1>1 DEF Better
      <4> QED
        BY <1>3, <2>2, <4>1, <4>2 DEF Distinct, BestFirst
    <3> QED
      BY <1>1, <3>1, <3>2 DEF SelectionIsExact
  <2> QED
    BY <2>1, <2>2
<1> QED
  BY <1>4, <1>5, <1>7

\* What the steps of main and of others leave alone.
LEMMA SelectorStutters ==
  ASSUME SelectorInv, UNCHANGED selector
  PROVE  SelectorInv'
<1>1. UNCHANGED <<links, byLatency, maxConcurrent, phase, next, sem, probe, rank, found, panicked>>
  BY DEF selector
<1>2. Holders' = Holders /\ Appended' = Appended
  BY <1>1 DEF Holders, Appended
<1>3. SelectionIsExact'
  BY <1>1 DEF SelectorInv, SelectionIsExact, Better
<1> QED
  BY <1>1, <1>2, <1>3 DEF SelectorInv, ListOK, ProbesOK, LinksInv, ProbesInv, FoundInv, Held,
                             Distinct, SemInv

LEMMA ProbeKeeps ==
  ASSUME SelectorInv, NEW i, ProbeStep(i)
  PROVE  SelectorInv'
BY ProbeFailsKeeps, ProbeAnswersKeeps, AppendKeeps, ReleaseKeeps, DoneKeeps DEF ProbeStep
------------------------------------------------------------------------------
(***************************************************************************)
(* The inductive invariant.                                                *)
(***************************************************************************)
LEMMA InitIInv == Init => IInv
<1> SUFFICES ASSUME Init PROVE IInv
  OBVIOUS
<1>1. MainOK
  BY DEF Init, MainOK, PastFile, Values
<1>2. MergedInv
  BY DEF Init, MergedInv, PastFile, PastMerge
<1> QED
  BY <1>1, <1>2, SelectorStarts DEF Init, IInv

\* Main before it selects: what is given stays given.
LEMMA MainMoves ==
  ASSUME IInv, UNCHANGED given, UNCHANGED selector,
         main' \in PastFile \cup {"args", "file", "stopped"}, effective' \in Values, MergedInv'
  PROVE  IInv'
<1>1. MainOK'
  BY DEF IInv, MainOK, given
<1> QED
  BY <1>1, SelectorStutters DEF IInv

LEMMA NextIInv == IInv /\ [Next]_vars => IInv'
<1> SUFFICES ASSUME IInv, [Next]_vars PROVE IInv'
  OBVIOUS
<1> USE DEF PastFile, PastMerge
<1>1. CASE ReadArgs
  <2>1. UNCHANGED <<setting, flag, file, hasFile, effective>>
    BY <1>1 DEF ReadArgs, given
  <2>2. MergedInv'
    BY <1>1, <2>1 DEF ReadArgs, MergedInv
  <2> QED
    BY <1>1, <2>2, MainMoves DEF ReadArgs, IInv, MainOK
<1>2. CASE ReadFile
  <2>1. UNCHANGED <<setting, flag, file, hasFile, effective>>
    BY <1>2 DEF ReadFile, given
  <2>2. MergedInv'
    BY <1>2, <2>1 DEF ReadFile, MergedInv, IInv
  <2> QED
    BY <1>2, <2>2, MainMoves DEF ReadFile, IInv, MainOK
<1>3. CASE Merge
  <2>1. UNCHANGED <<setting, flag, file, hasFile>>
    BY <1>3 DEF Merge, given
  <2>2. MergedInv'
    BY <1>3, <2>1 DEF Merge, MergedInv, IInv
  <2>3. effective' \in Values
    BY <1>3, EffectiveKnown DEF Merge, IInv
  <2> QED
    BY <1>3, <2>2, <2>3, MainMoves DEF Merge
<1>4. CASE ChooseMode
  <2>1. UNCHANGED <<setting, flag, file, hasFile, effective>>
    BY <1>4 DEF ChooseMode, given
  <2>2. main = "mode" /\ main' \in {"fetch", "direct", "stopped"}
    BY <1>4 DEF ChooseMode
  <2>3. MergedInv'
    BY <2>1, <2>2 DEF MergedInv, IInv
  <2> QED
    BY <1>4, <2>2, <2>3, MainMoves DEF ChooseMode, IInv, MainOK
<1>5. CASE FetchFails
  <2>1. MergedInv'
    BY <1>5 DEF FetchFails, MergedInv
  <2> QED
    BY <1>5, <2>1, MainMoves DEF FetchFails, IInv, MainOK
<1>6. CASE Fetch
  <2>1. /\ main = "fetch" /\ main' = "select" /\ UNCHANGED given /\ UNCHANGED effective
        /\ UNCHANGED <<setting, flag, file, hasFile, argLink, argURL, named, env>>
    BY <1>6 DEF Fetch, given
  <2>2. PICK list \in Lists, latency \in BOOLEAN : Select(list, Limit, latency)
    BY <1>6 DEF Fetch
  <2>3. list \in Seq(Lines)
    BY StartupAssumption
  <2>4. Limit \in Nat \ {0}
    BY <2>1, LimitPositive DEF IInv
  <2>5. SelectorInv'
    BY <2>2, <2>3, <2>4, SelectKeeps DEF IInv
  <2>6. MainOK'
    BY <2>1 DEF IInv, MainOK
  <2>7. MergedInv'
    BY <2>1 DEF IInv, MergedInv
  <2> QED
    BY <2>5, <2>6, <2>7 DEF IInv
<1>7. ASSUME UNCHANGED <<main, given, effective>>, SelectorInv'
      PROVE  IInv'
  <2>1. UNCHANGED <<main, setting, flag, file, hasFile, argLink, argURL, named, env, effective>>
    BY <1>7 DEF given
  <2>2. MainOK'
    BY <2>1 DEF IInv, MainOK
  <2>3. MergedInv'
    BY <2>1 DEF IInv, MergedInv
  <2> QED
    BY <1>7, <2>2, <2>3 DEF IInv
<1>8. CASE SelectStep
  BY <1>7, <1>8, SpawnKeeps, SelectionDoneKeeps DEF SelectStep, IInv
<1>9. CASE \E i \in 1 .. MaxLinks : ProbeGoroutine(i)
  BY <1>7, <1>9, ProbeKeeps DEF ProbeGoroutine, IInv
<1>10. CASE UNCHANGED vars
  BY <1>7, <1>10, SelectorStutters DEF vars, IInv
<1> QED
  BY <1>1, <1>2, <1>3, <1>4, <1>5, <1>6, <1>8, <1>9, <1>10 DEF Next
------------------------------------------------------------------------------
(***************************************************************************)
(* Theorems.                                                               *)
(***************************************************************************)
\* The inductive invariant is one.
LEMMA Inductive == Spec => []IInv
BY InitIInv, NextIInv, PTL DEF Spec

\* Every variable keeps its type: the semaphore never holds more tokens than there are
\* links, and never less than none.  SelectAllByScore, SelectAllByLatency.
THEOREM TypeCorrect == Spec => []TypeOK
<1>1. IInv => TypeOK
  <2> SUFFICES ASSUME IInv PROVE TypeOK
    OBVIOUS
  <2>1. sem \in 0 .. Len(links)
    BY HoldersFinite DEF IInv, SelectorInv, SemInv
  <2>2. SelectorTypeOK
    BY <2>1 DEF IInv, SelectorInv, ListOK, ProbesOK, SelectorTypeOK
  <2> QED
    BY <2>2 DEF IInv, MainOK, TypeOK, PastFile
<1> QED
  BY <1>1, Inductive, PTL

\* Main goes on with what a flag said, unless it said its default and the file decided, and
\* with nothing the flag could not have said, unless it is a port of the file, whatever is
\* given.  The merge of main, Validate, setDefaults.
THEOREM SettingsDecided == Spec => []SettingDecided
<1>1. IInv => SettingDecided
  BY Decided DEF IInv
<1> QED
  BY <1>1, Inductive, PTL

\* A selection returns the servers that answered, each once and in order, for every list and
\* every interleaving of its goroutines.  SelectAllByScore, SelectAllByLatency.
THEOREM SelectionExact == Spec => []SelectionIsExact
<1>1. IInv => SelectionIsExact
  BY DEF IInv, SelectorInv
<1> QED
  BY <1>1, Inductive, PTL

\* No list that the parser has read and no setting makes a selection panic.
\* isValidVLESSLink, extractHostPort, SelectAllByScore.
THEOREM NoSelectionPanics == Spec => []NothingPanics
<1>1. IInv => NothingPanics
  BY DEF IInv, SelectorInv, LinksInv, NothingPanics
<1> QED
  BY <1>1, Inductive, PTL

\* A selection is never stuck: the semaphore has a token for the next goroutine, or a
\* goroutine is on its way (none of its steps waits for another), or all of them have called
\* wg.Done and the sort is next.  What makes SelectionEnds possible, for every capacity of
\* the semaphore (SelectAllByScore, SelectAllByLatency).
UnderWay == {i \in DOMAIN links : probe[i] \in {"probing", "available", "over", "released"}}

SelectionCanMove ==
  phase = "selecting" =>
    \/ next <= Len(links) /\ sem < maxConcurrent
    \/ UnderWay # {}
    \/ next > Len(links) /\ \A i \in DOMAIN links : probe[i] = "done"

\* A selection has a semaphore, and the loop has started what it has passed.
MoveInv ==
  /\ phase = "selecting" => maxConcurrent > 0
  /\ \A i \in DOMAIN links : i < next => probe[i] # "none"

LEMMA MoveStep ==
  ASSUME IInv, MoveInv, [Next]_vars
  PROVE  MoveInv'
<1>0. /\ ProbesOK /\ next \in Nat /\ maxConcurrent \in Int
      /\ probe \in [DOMAIN links ->
                      {"none", "probing", "available", "over", "released", "done"}]
  BY DEF IInv, SelectorInv, ListOK, ProbesOK
<1>1. CASE UNCHANGED selector
  BY <1>1 DEF selector, MoveInv
<1>2. CASE Fetch
  <2>1. PICK list \in Lists, latency \in BOOLEAN : Select(list, Limit, latency)
    BY <1>2 DEF Fetch
  <2>2. Limit \in Nat \ {0}
    BY <1>2, LimitPositive DEF Fetch, IInv
  <2>3. phase = "before" /\ next' = next /\ maxConcurrent' = Limit
    BY <2>1, <2>2 DEF Select
  <2>4. next' = 1
    BY <2>3 DEF IInv, SelectorInv, LinksInv
  <2>5. links' \in Seq(Lines)
    BY <2>1, StartupAssumption, ParsedAccepted DEF Select
  <2> QED
    BY <2>2, <2>3, <2>4, <2>5 DEF MoveInv
<1>3. CASE Spawn
  <2>1. /\ next' = next + 1 /\ probe' = [probe EXCEPT ![next] = "probing"]
        /\ UNCHANGED <<links, maxConcurrent, phase>>
    BY <1>3 DEF Spawn
  <2>2. \A i \in DOMAIN links : i \in Nat
    BY DEF IInv, SelectorInv, ListOK
  <2>3. \A i \in DOMAIN links : i < next + 1 => i < next \/ i = next
    BY <1>0, <2>2
  <2> QED
    BY <1>0, <2>1, <2>3 DEF MoveInv
<1>4. ASSUME NEW i \in 1 .. MaxLinks, ProbeStep(i)
      PROVE  MoveInv'
  <2>1. /\ UNCHANGED <<links, next, maxConcurrent>> /\ phase' \in {phase, "failed"}
        /\ \E p \in {"available", "over", "released", "done"} : probe' = [probe EXCEPT ![i] = p]
    BY <1>4 DEF ProbeStep, ProbeFails, ProbeAnswers, AppendFound, Release, Done
  <2>2. \A j \in DOMAIN links : probe[j] # "none" => probe'[j] # "none"
    BY <1>0, <2>1
  <2> QED
    BY <2>1, <2>2 DEF MoveInv
<1>5. CASE SelectionDone
  BY <1>5 DEF SelectionDone, MoveInv
<1> QED
  BY <1>1, <1>2, <1>3, <1>4, <1>5
  DEF Next, ReadArgs, ReadFile, Merge, ChooseMode, FetchFails, SelectStep, ProbeGoroutine, vars

\* However many links and however few tokens: no selection of the server list is deadlocked on
\* its semaphore or its wait group.
THEOREM SelectionNotStuck == Spec => []SelectionCanMove
<1>1. Init => MoveInv
  BY DEF Init, SelectorInit, MoveInv
<1>2. IInv /\ MoveInv /\ [Next]_vars => MoveInv'
  BY MoveStep
<1>3. IInv /\ MoveInv => SelectionCanMove
  <2> SUFFICES ASSUME IInv, MoveInv, phase = "selecting", UnderWay = {}
               PROVE  \/ next <= Len(links) /\ sem < maxConcurrent
                      \/ next > Len(links) /\ \A i \in DOMAIN links : probe[i] = "done"
    BY DEF SelectionCanMove
  <2>1. \A i \in DOMAIN links : probe[i] \in {"none", "done"}
    BY DEF UnderWay, IInv, SelectorInv, ProbesOK
  <2>2. Holders = {}
    BY <2>1 DEF Holders
  <2>3. sem = 0
    BY <2>2, FS_EmptySet DEF IInv, SelectorInv, SemInv
  <2>4. /\ next \in Nat /\ Len(links) \in Nat /\ DOMAIN links = 1 .. Len(links)
        /\ maxConcurrent > 0
    BY DEF IInv, SelectorInv, ListOK, MoveInv
  <2>5. CASE next <= Len(links)
    BY <2>3, <2>4, <2>5
  <2>6. CASE next > Len(links)
    <3>1. \A i \in DOMAIN links : i < next
      BY <2>4, <2>6
    <3> QED
      BY <2>1, <2>6, <3>1 DEF MoveInv
  <2> QED
    BY <2>4, <2>5, <2>6
<1> QED
  BY <1>1, <1>2, <1>3, Inductive, PTL DEF Spec
==============================================================================
