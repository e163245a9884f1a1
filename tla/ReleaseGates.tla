---------------------------- MODULE ReleaseGates ----------------------------
(***************************************************************************)
(* What a change passes on its way into a deployment: the license gate of  *)
(* the build (tools/license_gate/gate.py), the golden transcripts          *)
(* (tools/eval_harness/harness.py), and the plugin registry that checks    *)
(* licenses once more when the process starts (saap/core/registry.py).     *)
(*                                                                         *)
(* A license is what its metadata say, and matters to the gate only by the *)
(* entries of the policy that occur in it: a text may contain several, as  *)
(* "AGPL-3.0" contains "GPL-3.0".  The registry compares whole texts.      *)
(***************************************************************************)
EXTENDS Naturals, Sequences

CONSTANTS
  Packages, Licenses,
  Contained,            \* Contained[l]: the entries of the policy that occur in l
  Unknown,              \* "UNKNOWN": a package without license metadata
  Allow, Review, Deny,  \* entries of the policy
  Overridden,           \* the packages in known_overrides
  Goldens, Outcomes,    \* transcripts, and what replaying one may produce
  AnyValue,             \* None in a transcript: not checked
  PluginKeys,
  RuntimeAllowed,       \* DEFAULT_ALLOWED_LICENSES
  MaxInstalled, MaxGoldens, MaxPluginCalls  \* bounds

ASSUME ReleaseAssumption ==
  /\ Contained \in [Licenses -> SUBSET (Allow \cup Review \cup Deny)]
  /\ Unknown \in Licenses /\ Contained[Unknown] = {}
  /\ MaxInstalled \in Nat /\ MaxGoldens \in Nat /\ MaxPluginCalls \in Nat
  \* A call is a name and arguments, and nothing else.
  /\ \A e \in Goldens \cup Outcomes :
       LET called == {e.calls[i] : i \in DOMAIN e.calls}
       IN e.calls \in Seq({[name |-> c.name, args |-> c.args] : c \in called})

VARIABLES
  gate,     \* main(): [strict, installed, scanned, verdicts, exit]
  suite,    \* run_suite(): [goldens, outcomes, results, at]
  plugins,  \* _registrations: license, number and instance of each key
  given     \* history: what register() and resolve() did

releaseVars == <<gate, suite, plugins, given>>

Distribution == [name : Packages, license : Licenses]
NoGate == [strict |-> FALSE, installed |-> <<>>, scanned |-> 0, verdicts |-> {}, exit |-> "none"]
NoSuite == [goldens |-> <<>>, outcomes |-> <<>>, results |-> <<>>, at |-> "none"]
Unregistered == [license |-> Unknown, number |-> 0, instance |-> 0]
UpTo(n, S) == UNION {[1..k -> S] : k \in 0..n}

ReleaseInit ==
  /\ gate = NoGate /\ suite = NoSuite
  /\ plugins = [k \in PluginKeys |-> Unregistered] /\ given = <<>>

-----------------------------------------------------------------------------
(* The license gate.                                                        *)

\* Mutant: the allow list is asked before the deny list.
ClassifyAllowFirst(d) ==
  IF d.name \in Overridden \/ Contained[d.license] \cap Allow # {} THEN "allow"
  ELSE IF Contained[d.license] \cap Deny # {} THEN "deny"
  ELSE IF Contained[d.license] \cap Review # {} THEN "review" ELSE "unknown"

\* _classify(): the first list with an entry that occurs in the license.
Classify(d) ==
  IF d.name \in Overridden THEN "allow"
  ELSE IF Contained[d.license] \cap Deny # {} THEN "deny"
  ELSE IF Contained[d.license] \cap Allow # {} THEN "allow"
  ELSE IF Contained[d.license] \cap Review # {} THEN "review" ELSE "unknown"

StartScan(strict, installed) ==
  /\ gate = NoGate
  /\ gate' = [NoGate EXCEPT !.strict = strict, !.installed = installed, !.exit = "scanning"]
  /\ UNCHANGED <<suite, plugins, given>>

\* A name that was seen before is skipped: what is imported is the first.
ScanNext ==
  LET d == gate.installed[gate.scanned + 1] IN
  /\ gate.exit = "scanning" /\ gate.scanned < Len(gate.installed)
  /\ gate' = [gate EXCEPT !.scanned = @ + 1,
       !.verdicts = IF \E v \in @ : v.name = d.name THEN @
                    ELSE @ \cup {[name |-> d.name, verdict |-> Classify(d)]}]
  /\ UNCHANGED <<suite, plugins, given>>

Having(verdict) == {v \in gate.verdicts : v.verdict = verdict}

ExitGate ==
  /\ gate.exit = "scanning" /\ gate.scanned = Len(gate.installed)
  /\ gate' = [gate EXCEPT !.exit =
       IF Having("deny") # {} \/ (gate.strict /\ Having("unknown") # {}) THEN "failed" ELSE "passed"]
  /\ UNCHANGED <<suite, plugins, given>>

-----------------------------------------------------------------------------
(* The golden transcripts.                                                  *)

\* evaluate(): the rules that fail.  Calls are compared one by one only if
\* there are as many as expected; an empty list expects nothing.
Failures(golden, outcome) ==
  {r \in {"contains", "not_contains", "tool_call_count", "tool_call_name",
          "tool_call_args", "grounded"} :
     LET asked == golden.calls
         same == Len(asked) = Len(outcome.calls)
         wrongName(i) == asked[i].name # outcome.calls[i].name
         wrongArgs(i) == asked[i].args \notin {AnyValue, outcome.calls[i].args}
     IN \/ r = "contains" /\ ~ golden.contains \subseteq outcome.says
        \/ r = "not_contains" /\ golden.avoids \cap outcome.says # {}
        \/ r = "tool_call_count" /\ asked # <<>> /\ ~ same
        \/ r = "tool_call_name" /\ same /\ \E i \in DOMAIN asked : wrongName(i)
        \/ r = "tool_call_args" /\ same /\ \E i \in DOMAIN asked : ~ wrongName(i) /\ wrongArgs(i)
        \/ r = "grounded" /\ golden.grounded \notin {AnyValue, outcome.grounded}}

\* run_suite() goes through the files by name.
StartSuite(goldens) ==
  /\ suite = NoSuite
  /\ suite' = [NoSuite EXCEPT !.goldens = goldens, !.at = "running"]
  /\ UNCHANGED <<gate, plugins, given>>

\* One transcript is replayed, which may raise, and evaluated.
Replay(outcome) ==
  /\ suite.at = "running" /\ Len(suite.results) < Len(suite.goldens)
  /\ LET golden == suite.goldens[Len(suite.results) + 1] IN
       suite' = [suite EXCEPT !.results = Append(@, Failures(golden, outcome) = {}),
                              !.outcomes = Append(@, outcome)]
  /\ UNCHANGED <<gate, plugins, given>>

ReplayRaises ==
  /\ suite.at = "running" /\ Len(suite.results) < Len(suite.goldens)
  /\ suite' = [suite EXCEPT !.at = "raised", !.results = <<>>]
  /\ UNCHANGED <<gate, plugins, given>>

EndSuite ==
  /\ suite.at = "running" /\ Len(suite.results) = Len(suite.goldens)
  /\ suite' = [suite EXCEPT !.at = "returned"]
  /\ UNCHANGED <<gate, plugins, given>>

-----------------------------------------------------------------------------
(* The registry.                                                            *)

Note(what, k, n) == given' = Append(given, [what |-> what, key |-> k, id |-> n])

\* A refused license raises; registering a key again replaces its instance.
Register(k, license) ==
  /\ Len(given) < MaxPluginCalls
  /\ IF license \in RuntimeAllowed
     THEN /\ plugins' = [plugins EXCEPT ![k] =
                           [license |-> license, number |-> @.number + 1, instance |-> 0]]
          /\ Note("registered", k, plugins'[k].number)
     ELSE UNCHANGED plugins /\ Note("rejected", k, 0)
  /\ UNCHANGED <<gate, suite>>

\* The factory is called for the first resolve() only, unless it raises.
ResolvePlugin(k, works) ==
  LET first == plugins[k].instance = 0 IN
  /\ Len(given) < MaxPluginCalls
  /\ IF plugins[k] = Unregistered \/ (first /\ ~ works)
     THEN UNCHANGED plugins /\ Note("raised", k, 0)
     ELSE /\ plugins' = [plugins EXCEPT ![k].instance = IF first THEN Len(given) + 1 ELSE @]
          /\ Note("resolved", k, plugins'[k].instance)
  /\ UNCHANGED <<gate, suite>>

GateNext ==
  \/ \E strict \in BOOLEAN, installed \in UpTo(MaxInstalled, Distribution) :
       StartScan(strict, installed)
  \/ ScanNext
  \/ ExitGate

SuiteNext ==
  \/ \E goldens \in UpTo(MaxGoldens, Goldens) : StartSuite(goldens)
  \/ \E outcome \in Outcomes : Replay(outcome)
  \/ ReplayRaises
  \/ EndSuite

RegistryNext ==
  \E k \in PluginKeys :
    \/ \E license \in Licenses : Register(k, license)
    \/ \E works \in BOOLEAN : ResolvePlugin(k, works)

-----------------------------------------------------------------------------
\* The package that is imported under a name.
Imported(p) ==
  LET places == {i \in DOMAIN gate.installed : gate.installed[i].name = p}
  IN gate.installed[CHOOSE i \in places : \A j \in places : i <= j]

\* What a transcript asks of a replay: its calls, all of them in order, with
\* the arguments it names.
Meets(outcome, golden) ==
  /\ golden.contains \subseteq outcome.says /\ golden.avoids \cap outcome.says = {}
  /\ golden.grounded \in {AnyValue, outcome.grounded}
  /\ golden.calls # <<>> =>
       golden.calls = [i \in DOMAIN outcome.calls |->
         IF i \in DOMAIN golden.calls /\ golden.calls[i].args = AnyValue
         THEN [outcome.calls[i] EXCEPT !.args = AnyValue] ELSE outcome.calls[i]]

RegisteredBetween(i, j) ==
  \E m \in i..j : given[m].what = "registered" /\ given[m].key = given[j].key

\* A build passes exactly if no package that would be imported names a license
\* of the deny list, whatever else its metadata say, and under strict each says
\* something the policy knows.  A suite has one result per transcript, which
\* tells whether that transcript's replay did what it asks; or none at all.
\* A plugin is handed out only after a registration with an allowed license,
\* the same one until its key is registered again, and a new one after that.
ReleaseIsExact ==
  /\ gate.exit \in {"passed", "failed"} =>
       (gate.exit = "passed" <=>
          \A i \in DOMAIN gate.installed :
            LET p == gate.installed[i].name
                entries == Contained[Imported(p).license]
            IN \/ p \in Overridden
               \/ entries \cap Deny = {} /\ (gate.strict => entries # {}))
  /\ \A i \in DOMAIN suite.results : suite.results[i] = Meets(suite.outcomes[i], suite.goldens[i])
  /\ suite.at = "returned" => Len(suite.results) = Len(suite.goldens)
  /\ \A j \in DOMAIN given : given[j].what = "resolved" =>
       /\ RegisteredBetween(1, j)
       /\ \A i \in 1..j : given[i].what = "resolved" /\ given[i].key = given[j].key =>
            (given[i].id = given[j].id <=> ~ RegisteredBetween(i, j))
  /\ \A k \in PluginKeys : plugins[k] # Unregistered => plugins[k].license \in RuntimeAllowed
=============================================================================
