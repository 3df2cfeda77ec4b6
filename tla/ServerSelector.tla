---------------------------- MODULE ServerSelector ----------------------------
(***************************************************************************)
(* SelectAllByScore and SelectAllByLatency of src/pkg/client/              *)
(* server_selector.go: a goroutine for each link, as many at a time as the *)
(* semaphore lets through, that probe the servers and append to one slice, *)
(* and the sort at the end; with the parsers of link_parser.go that decide *)
(* what is a link and those of the selector that take it apart.            *)
(***************************************************************************)
EXTENDS Integers, Sequences, FiniteSets

CONSTANTS
  DefaultMaxConcurrent, \* what NewServerSelector makes of 0
  MaxRank               \* bound: scores or latencies told apart

ASSUME SelectorAssumption ==
  DefaultMaxConcurrent \in Nat \ {0} /\ MaxRank \in Nat \ {0}

\* A line of a list: what follows the scheme is well formed or not, and names a host and a
\* port or does not.
Lines == [scheme : {"vless", "vmess", "other"}, formed : BOOLEAN, host : BOOLEAN,
          port : BOOLEAN]

VARIABLES
  links,         \* what the parser has left of the list
  byLatency,     \* SelectAllByLatency, or SelectAllByScore
  maxConcurrent,
  phase,         \* "before", "selecting", "selected", "failed"
  next,          \* the link the loop is at
  sem,           \* tokens in the semaphore
  probe,         \* the goroutine of each link
  rank,          \* what it measured
  found,         \* the shared slice
  panicked

selector == <<links, byLatency, maxConcurrent, phase, next, sem, probe, rank, found, panicked>>
------------------------------------------------------------------------------
\* Faulty: the prefix is enough.
AcceptedPrefix(line) == line.scheme # "other"

\* isValidVLESSLink, isValidVMessLink.
Accepted(line) == line.scheme # "other" /\ line.formed /\ line.host /\ line.port

\* extractHostPort: a missing port is taken for 443.
Extracted(line) == line.scheme # "other" /\ line.formed /\ line.host

SelectorInit ==
  /\ links = <<>> /\ byLatency = FALSE /\ maxConcurrent = DefaultMaxConcurrent
  /\ phase = "before"
  /\ next = 1 /\ sem = 0 /\ probe = <<>> /\ rank = <<>> /\ found = <<>>
  /\ panicked = FALSE

\* ParseLinksFromRaw: the lines that are accepted, in their order (SelectSeq has a recursive
\* definition, about which nothing could be proved).
Parsed(lines) ==
  LET kept == {n \in DOMAIN lines : Accepted(lines[n])} IN
  {[i \in DOMAIN p |-> lines[p[i]]] :
     p \in {q \in [1 .. Cardinality(kept) -> kept] :
             \A i, j \in DOMAIN q : i < j => q[i] < q[j]}}

\* NewServerSelector, and the head of a selection: no link is an error, and a semaphore of
\* negative capacity a panic.
Select(lines, limit, latency) ==
  LET capacity == IF limit = 0 THEN DefaultMaxConcurrent ELSE limit IN
  /\ phase = "before"
  /\ links' \in Parsed(lines)
  /\ byLatency' = latency
  /\ maxConcurrent' = capacity
  /\ panicked' = (links' # <<>> /\ capacity < 0)
  /\ phase' = IF links' = <<>> \/ panicked' THEN "failed" ELSE "selecting"
  /\ probe' = [i \in DOMAIN links' |-> "none"]
  /\ rank' = [i \in DOMAIN links' |-> 0]
  /\ UNCHANGED <<next, sem, found>>

\* The loop takes a token before it starts the goroutine of the next link.
Spawn ==
  /\ phase = "selecting" /\ next <= Len(links)
  /\ sem < maxConcurrent
  /\ sem' = sem + 1
  /\ probe' = [probe EXCEPT ![next] = "probing"]
  /\ next' = next + 1
  /\ UNCHANGED <<links, byLatency, maxConcurrent, phase, rank, found, panicked>>

Probing(i) == phase = "selecting" /\ i \in DOMAIN links /\ probe[i] = "probing"

\* Faulty: the goroutine of a server that does not answer returns without its token.
ProbeFailsKeepsToken(i) ==
  /\ Probing(i)
  /\ probe' = [probe EXCEPT ![i] = "done"]
  /\ UNCHANGED <<links, byLatency, maxConcurrent, phase, next, sem, rank, found, panicked>>

\* No answer, or a link that cannot be taken apart: SelectAllByScore logs the host of the
\* nil result.
ProbeFails(i) ==
  LET panics == ~Extracted(links[i]) /\ ~byLatency IN
  /\ Probing(i)
  /\ panicked' = panics
  /\ phase' = IF panics THEN "failed" ELSE phase
  /\ probe' = [probe EXCEPT ![i] = "over"]
  /\ UNCHANGED <<links, byLatency, maxConcurrent, next, sem, rank, found>>

ProbeAnswers(i) ==
  /\ Probing(i) /\ Extracted(links[i])
  /\ \E r \in 1 .. MaxRank : rank' = [rank EXCEPT ![i] = r]
  /\ probe' = [probe EXCEPT ![i] = "available"]
  /\ UNCHANGED <<links, byLatency, maxConcurrent, phase, next, sem, found, panicked>>

\* Under the mutex.
AppendFound(i) ==
  /\ phase = "selecting" /\ i \in DOMAIN links /\ probe[i] = "available"
  /\ found' = Append(found, i)
  /\ probe' = [probe EXCEPT ![i] = "over"]
  /\ UNCHANGED <<links, byLatency, maxConcurrent, phase, next, sem, rank, panicked>>

\* The deferred calls: the token first, then wg.Done.
Release(i) ==
  /\ phase = "selecting" /\ i \in DOMAIN links /\ probe[i] = "over"
  /\ sem' = sem - 1
  /\ probe' = [probe EXCEPT ![i] = "released"]
  /\ UNCHANGED <<links, byLatency, maxConcurrent, phase, next, rank, found, panicked>>

Done(i) ==
  /\ phase = "selecting" /\ i \in DOMAIN links /\ probe[i] = "released"
  /\ probe' = [probe EXCEPT ![i] = "done"]
  /\ UNCHANGED <<links, byLatency, maxConcurrent, phase, next, sem, rank, found, panicked>>

Better(i, j) == IF byLatency THEN rank[i] < rank[j] ELSE rank[i] > rank[j]

\* sort.Slice keeps no order among equals.
Sorted(s) ==
  {t \in [DOMAIN s -> {s[n] : n \in DOMAIN s}] :
     /\ \A n \in DOMAIN s : \E o \in DOMAIN s : t[o] = s[n]
     /\ \A n, o \in DOMAIN s : n < o => ~Better(t[o], t[n])}

\* Faulty: nobody waits for the goroutines.
SelectionDoneEarly ==
  /\ phase = "selecting" /\ next > Len(links)
  /\ IF found = <<>>
     THEN phase' = "failed" /\ UNCHANGED found
     ELSE phase' = "selected" /\ found' \in Sorted(found)
  /\ UNCHANGED <<links, byLatency, maxConcurrent, next, sem, probe, rank, panicked>>

\* wg.Wait, then the sort; no server that answers is an error.
SelectionDone ==
  /\ phase = "selecting" /\ next > Len(links)
  /\ \A i \in DOMAIN links : probe[i] = "done"
  /\ IF found = <<>>
     THEN phase' = "failed" /\ UNCHANGED found
     ELSE phase' = "selected" /\ found' \in Sorted(found)
  /\ UNCHANGED <<links, byLatency, maxConcurrent, next, sem, probe, rank, panicked>>

ProbeStep(i) ==
  \/ ProbeFails(i) \/ ProbeAnswers(i) \/ AppendFound(i) \/ Release(i) \/ Done(i)

------------------------------------------------------------------------------
(***************************************************************************)
(* Properties.                                                             *)
(***************************************************************************)
\* Every variable keeps its type.
SelectorTypeOK ==
  /\ links \in Seq(Lines) /\ byLatency \in BOOLEAN /\ maxConcurrent \in Int
  /\ phase \in {"before", "selecting", "selected", "failed"}
  /\ next \in 1 .. Len(links) + 1 /\ sem \in 0 .. Len(links)
  /\ probe \in [DOMAIN links ->
                  {"none", "probing", "available", "over", "released", "done"}]
  /\ rank \in [DOMAIN links -> 0 .. MaxRank]
  /\ found \in Seq(DOMAIN links)
  /\ panicked \in BOOLEAN

\* A selection that succeeds returns every server that answered and no other, each once and
\* none before a better one, in whatever order the goroutines finished; one that fails had
\* none.  SelectAllByScore, SelectAllByLatency.
SelectionIsExact ==
  LET answered == {i \in DOMAIN links : rank[i] # 0} IN
  /\ phase = "selected" =>
       /\ {found[n] : n \in DOMAIN found} = answered
       /\ \A n, o \in DOMAIN found : n < o => found[n] # found[o] /\ ~Better(found[o], found[n])
  /\ phase = "failed" /\ ~panicked => answered = {}

\* No selection panics: what the parser lets through can be taken apart, and no setting
\* makes a semaphore of negative capacity.  isValidVLESSLink, extractHostPort,
\* SelectAllByScore.
NothingPanics == ~panicked

\* A selection ends: every goroutine gives its token back for the next one.
\* SelectAllByScore, SelectAllByLatency.
SelectionEnds == phase = "selecting" ~> phase \in {"selected", "failed"}
==============================================================================
