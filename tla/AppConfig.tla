------------------------------- MODULE AppConfig -------------------------------
(***************************************************************************)
(* What the program is told to do: the flags of src/main.go, the YAML file *)
(* of src/pkg/client/config.go with its defaults and its validation, and   *)
(* how main merges them.  A value is known by what the rules tell apart.   *)
(***************************************************************************)

\* Values of a setting: not given, not of its type, below zero, 0, 1, a usual one (the
\* default of most settings), and one that no port may have.
Given == {"malformed", "negative", "zero", "one", "usual", "large"}
Values == Given \cup {"absent"}
Numbers == Given \ {"malformed"}
Positive == {"one", "usual", "large"}

(***************************************************************************)
(* The rules of one setting:                                               *)
(*   default  its value when nobody sets it                                *)
(*   keeps    a malformed flag leaves it as it was (fmt.Sscanf)            *)
(*   flag     what a flag may set it to                                    *)
(*   fill     what the file's defaults replace                             *)
(*   file     what the file may then hold                                  *)
(*   arrives  what of the file main looks at                               *)
(***************************************************************************)
Rule(default, keeps, flag, fill, file, arrives) ==
  [default |-> default, keeps |-> keeps, flag |-> flag, fill |-> fill, file |-> file,
   arrives |-> arrives]

MaxServers    == Rule("usual", TRUE, Positive, {"absent", "zero"}, Positive, Numbers)
LogMaxSize    == MaxServers
LogMaxBackups == Rule("usual", TRUE, Positive \cup {"zero"}, {"absent", "zero"}, Positive,
                      Numbers)
LogMaxAge     == LogMaxBackups
LogLevel      == Rule("usual", FALSE, {"usual", "one"}, {"absent"}, {"usual", "one"},
                      {"usual", "one"})
LogFormat     == LogLevel
Timeout       == Rule("usual", FALSE, Numbers, {"absent"}, Numbers, Numbers)
RefreshInterval == Rule("zero", FALSE, Numbers, {"absent"}, Numbers, Numbers)
MetricsPort   == Rule("zero", TRUE, {"one", "usual"}, {"absent"}, Numbers, Positive)
MaxRetries    == Rule("zero", TRUE, Positive \cup {"zero"}, {"absent", "negative"},
                      Positive \cup {"zero"}, Positive)
BackoffFactor == Rule("usual", TRUE, {"usual", "large"},
                      {"absent", "negative", "zero", "one"}, {"usual", "large"},
                      {"usual", "large"})
\* The file's min_backoff and max_backoff are read into strings nobody parses.
MinBackoff    == Rule("usual", FALSE, Numbers, Values, {"usual"}, {"usual"})
MaxBackoff    == MinBackoff
\* A switch has one flag, that turns it on.
Switch        == Rule("zero", FALSE, {"one"}, {"absent"}, {"zero", "one"}, {"one"})

Rules ==
  [maxServers |-> MaxServers, timeout |-> Timeout, refreshInterval |-> RefreshInterval,
   metricsPort |-> MetricsPort, maxRetries |-> MaxRetries, minBackoff |-> MinBackoff,
   maxBackoff |-> MaxBackoff, backoffFactor |-> BackoffFactor, logLevel |-> LogLevel,
   logFormat |-> LogFormat, logMaxSize |-> LogMaxSize, logMaxBackups |-> LogMaxBackups,
   logMaxAge |-> LogMaxAge, enableIPv6 |-> Switch, enableDNSProtection |-> Switch,
   enableKillSwitch |-> Switch]

Settings == DOMAIN Rules

\* What can be given at all.
Inputs(s) ==
  CASE Rules[s] = Switch -> {"absent", "one"}
    [] Rules[s] = LogLevel -> {"absent", "malformed", "usual", "one"}
    [] OTHER -> Values
------------------------------------------------------------------------------
\* The variable of main after the flags.
FlagValue(s, flag) ==
  IF flag = "absent" \/ (flag = "malformed" /\ Rules[s].keeps) THEN Rules[s].default ELSE flag

FlagAccepted(s, flag) == flag = "absent" \/ FlagValue(s, flag) \in Rules[s].flag

\* setDefaults.
FileValue(s, file) == IF file \in Rules[s].fill THEN Rules[s].default ELSE file

\* Faulty: Validate does not look at what is below zero.
FileAcceptedNegative(s, file) ==
  \/ FileValue(s, file) \in Rules[s].file \cup {"negative"}
  \/ FileValue(s, file) = Rules[s].default

\* yaml.Unmarshal and Validate.  A default passes.
FileAccepted(s, file) ==
  FileValue(s, file) \in Rules[s].file \/ FileValue(s, file) = Rules[s].default

\* Faulty: the file decides whenever it says something.
EffectiveFileFirst(s, flag, file) ==
  IF FileValue(s, file) \in Rules[s].arrives \ {Rules[s].default}
  THEN FileValue(s, file)
  ELSE FlagValue(s, flag)

\* main: the file's value replaces a variable that holds its default.
Effective(s, flag, file) ==
  IF FlagValue(s, flag) = Rules[s].default /\ FileValue(s, file) \in Rules[s].arrives
  THEN FileValue(s, file)
  ELSE FlagValue(s, flag)
------------------------------------------------------------------------------
(***************************************************************************)
(* Where the servers come from: a link, one URL of a list, several URLs.   *)
(***************************************************************************)
Sources == {"link", "from_raw", "from_raw_urls"}

\* Validate: a file names one source.
SourcesAccepted(named) == \E src \in Sources : named = {src}

\* A URL of the command line keeps the file's out, and any URL keeps a link out, even a
\* link of the command line.
ModeOf(argLink, argURL, named, env) ==
  IF argURL \/ named \cap {"from_raw", "from_raw_urls"} # {} THEN "raw"
  ELSE IF argLink \/ "link" \in named \/ env THEN "direct"
  ELSE "usage"
==============================================================================
