-------------------------------- MODULE Profiles --------------------------------
(***************************************************************************)
(* How le decides what a listener is and how it has to be stopped          *)
(* (intel/intel.go, Make): an ordered list of rules over what the command  *)
(* line, the working directory and the binary's place say, and then the    *)
(* override by launchd.  A text is seen through the marks that the rules   *)
(* look for in it; wording, risk and confidence are left out.              *)
(***************************************************************************)
EXTENDS Naturals, Sequences

CONSTANTS
    NoFormula,         \* the binary is not under Homebrew's prefix
    NoLabel,           \* launchd does not know the process
    DatabaseFormulas,  \* redis, mongodb..., postgresql, mysql, mariadb
    TunnelFormula      \* cloudflared

\* The words and substrings that the rules search for, one mark per group.
Marks == {"kubectl", "cloudflared", "database", "ollama", "framework", "runtime", "editor"}

Kinds == {"term", "brew", "launchd", "avoid"}

\* A rule applies or not and leads to a kind of stop.
On(applies, kind) == [applies |-> applies, kind |-> kind]

\* The kind of a binary that belongs to a formula, whoever has started it.
ByFormula(a) == IF a.formula = NoFormula THEN "term" ELSE "brew"

\* A slip: what an interpreter or a directory name suggests comes before the
\* question whether this is a container helper.
SlipRules(a, started) ==
    LET text == a.cmd \cup a.dir IN
    << On("framework" \in text, "term"),
       On(a.script, "term"),
       On("runtime" \in text, "term"),
       On(a.helper, "avoid"),
       On("database" \in a.cmd \/ a.formula \in DatabaseFormulas, ByFormula(a)),
       On(a.formula # NoFormula, "brew"),
       On(a.system \/ a.app, "avoid"),
       On(TRUE, "term") >>

\* The cases of Make in their order.  a.cmd are the marks in the command and
\* its arguments, a.dir those in the working directory: only the rules that
\* search `text` are open to what a project folder is called.
Rules(a, started) ==
    LET text == a.cmd \cup a.dir IN
    << On(a.helper, "avoid"),
       On("kubectl" \in a.cmd, "term"),
       On("cloudflared" \in a.cmd,
          IF a.formula = TunnelFormula /\ started THEN "brew" ELSE "term"),
       On("database" \in a.cmd \/ a.formula \in DatabaseFormulas, ByFormula(a)),
       On("ollama" \in text, ByFormula(a)),
       On("framework" \in text, "term"),
       On(a.script, "term"),
       On("runtime" \in text, "term"),
       On("editor" \in text, "avoid"),
       On(a.formula # NoFormula, "brew"),
       On(a.system \/ a.app, "avoid"),
       On(TRUE, "term") >>

\* switch takes the first case that applies.
FirstThatApplies(rules) ==
    CHOOSE k \in DOMAIN rules :
        rules[k].applies /\ \A m \in 1 .. k - 1 : ~rules[m].applies

\* A slip: the override is left out.
SlipMake(a, started, label) ==
    [kind |-> LET r == Rules(a, started) IN r[FirstThatApplies(r)].kind, label |-> NoLabel]

\* What Make hands to kill: the kind of stop and, for launchd, the label.  Only
\* a plain TERM is rerouted to the supervisor: brew keeps its precedence and
\* what is refused stays refused.
Make(a, started, label) ==
    LET r == Rules(a, started)
        kind == r[FirstThatApplies(r)].kind
    IN IF kind = "term" /\ label # NoLabel
       THEN [kind |-> "launchd", label |-> label]
       ELSE [kind |-> kind, label |-> NoLabel]

=============================================================================
