-------------------------------- MODULE Startup --------------------------------
(***************************************************************************)
(* From the command line to the list of servers: main reads the flags,     *)
(* then the file, merges them (module AppConfig) and either connects to a  *)
(* link or fetches a list and selects (module ServerSelector).  One        *)
(* setting at a time is given; the others have their defaults.             *)
(***************************************************************************)
EXTENDS AppConfig, ServerSelector

CONSTANTS
  Lists,      \* what a URL may answer with: sequences of lines
  MaxLinks,   \* bound: links in a list
  LargeValue  \* the number "large" stands for

ASSUME StartupAssumption ==
  /\ MaxLinks \in Nat /\ LargeValue \in Nat \ {0}
  /\ \A list \in Lists : list \in Seq(Lines) /\ Len(list) <= MaxLinks

VARIABLES
  main,      \* "args", "file", "merge", "mode", "fetch", "select", "direct", "stopped"
  setting,   \* the setting that is given ...
  flag, file, \* ... by a flag, and in the file
  hasFile,   \* --config
  argLink, argURL, \* a link, a URL on the command line
  named,     \* sources the file names
  env,       \* GOXRAY_CONFIG_URL
  effective  \* the value main goes on with

given == <<setting, flag, file, hasFile, argLink, argURL, named, env>>
vars == <<main, given, effective, selector>>
------------------------------------------------------------------------------
Init ==
  /\ main = "args"
  /\ setting \in Settings /\ flag \in Inputs(setting) /\ file \in Inputs(setting)
  /\ hasFile \in BOOLEAN
  /\ argLink \in BOOLEAN /\ argURL \in BOOLEAN /\ env \in BOOLEAN
  /\ named \in SUBSET Sources
  /\ hasFile \/ (file = "absent" /\ named = {})
  /\ effective = "absent"
  /\ SelectorInit

\* A flag that is refused ends the program.
ReadArgs ==
  /\ main = "args"
  /\ main' = IF FlagAccepted(setting, flag) THEN "file" ELSE "stopped"
  /\ UNCHANGED <<given, effective, selector>>

\* LoadConfig.
ReadFile ==
  /\ main = "file"
  /\ main' = IF hasFile => FileAccepted(setting, file) /\ SourcesAccepted(named)
             THEN "merge" ELSE "stopped"
  /\ UNCHANGED <<given, effective, selector>>

\* Without a file the flags are all there is.
Merge ==
  /\ main = "merge"
  /\ effective' = IF hasFile THEN Effective(setting, flag, file) ELSE FlagValue(setting, flag)
  /\ main' = "mode"
  /\ UNCHANGED <<given, selector>>

ChooseMode ==
  /\ main = "mode"
  /\ main' = LET mode == ModeOf(argLink, argURL, named, env) IN
             IF mode = "raw" THEN "fetch" ELSE IF mode = "direct" THEN "direct" ELSE "stopped"
  /\ UNCHANGED <<given, effective, selector>>

Number(value) ==
  CASE value = "negative" -> -1 [] value = "zero" -> 0 [] value = "one" -> 1
    [] value = "large" -> LargeValue [] OTHER -> DefaultMaxConcurrent

\* maxServers is the capacity of the semaphore: it limits the probes at a time, not the
\* servers that are probed.
Limit == IF setting = "maxServers" THEN Number(effective) ELSE DefaultMaxConcurrent

\* A timeout below zero is over at once: no list is fetched.
Expired == setting = "timeout" /\ effective = "negative"

FetchFails ==
  /\ main = "fetch"
  /\ main' = "stopped"
  /\ UNCHANGED <<given, effective, selector>>

\* The first selection is by score, a refresh selects by latency.
Fetch ==
  /\ main = "fetch" /\ ~Expired
  /\ \E list \in Lists, latency \in BOOLEAN : Select(list, Limit, latency)
  /\ main' = "select"
  /\ UNCHANGED <<given, effective>>

\* The goroutine that selects, and those it starts.
SelectStep ==
  main = "select" /\ (Spawn \/ SelectionDone) /\ UNCHANGED <<main, given, effective>>

ProbeGoroutine(i) ==
  main = "select" /\ ProbeStep(i) /\ UNCHANGED <<main, given, effective>>

Next ==
  \/ ReadArgs \/ ReadFile \/ Merge \/ ChooseMode \/ FetchFails \/ Fetch
  \/ SelectStep \/ \E i \in 1 .. MaxLinks : ProbeGoroutine(i)

\* The goroutines are scheduled, and every probe has a timeout.
Fairness == WF_vars(SelectStep) /\ \A i \in 1 .. MaxLinks : WF_vars(ProbeGoroutine(i))

Spec == Init /\ [][Next]_vars /\ Fairness
------------------------------------------------------------------------------
(***************************************************************************)
(* Properties.                                                             *)
(***************************************************************************)
\* Every variable keeps its type.
TypeOK ==
  /\ main \in {"args", "file", "merge", "mode", "fetch", "select", "direct", "stopped"}
  /\ setting \in Settings /\ {flag, file} \subseteq Inputs(setting)
  /\ {hasFile, argLink, argURL, env} \subseteq BOOLEAN /\ named \subseteq Sources
  /\ effective \in Values
  /\ SelectorTypeOK

\* Where main is after the merge.
Merged == main \in {"mode", "fetch", "select", "direct"}

\* Main goes on with what a flag says, whatever the file says, with one exception: a flag
\* given with its default value loses to a value of the file.  And main goes on with nothing
\* but what the flag may say or its default, with one exception: a port of the file that is
\* no port.  The flags of main, setDefaults, Validate, the merge of main.
SettingDecided ==
  LET default == Rules[setting].default
      said    == flag \notin {"absent", "malformed"}
  IN  Merged =>
        /\ said => \/ effective = flag
                   \/ flag = default /\ hasFile /\ effective = FileValue(setting, file)
        /\ \/ effective \in Rules[setting].flag \cup {default}
           \/ setting = "metricsPort" /\ hasFile /\ file = "large" /\ effective = "large"
==============================================================================
