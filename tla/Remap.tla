------------------------------- MODULE Remap -------------------------------
(***************************************************************************)
(* The rules that rewrite or refuse file names: parserulefile, parseline   *)
(* and rewrite_string (remap.c), and rewrite_access (tftpd.c).             *)
(*                                                                         *)
(* A regex is the set of the names that it matches, a pattern with its     *)
(* macros is the function from a matched name to the new one.  What        *)
(* decides is the order of the rules and their flags: a rule may repeat    *)
(* itself, go back to the top, stop, or refuse the name.                   *)
(***************************************************************************)
EXTENDS Naturals, Sequences, FiniteSets

CONSTANTS
    FileNames,      \* names, before and after rewriting
    Lines,          \* lines that a map file may have, see LineType
    MaxLines,       \* bound: lines of the map file
    DEADMAN_MAX_STEPS

\* "r", "g", "e", "s", "a", "~": the letters of a line; "?": an invalid one
Letters == {"r", "g", "e", "s", "a", "~", "?"}

\* mode: "G" and "P" restrict a rule to reads or writes.  regex: "blank" is a line with
\* nothing but a comment.  pattern: "none", "text", or "x" when it has the macro \x.
LineType ==
    [letters : SUBSET Letters, mode : {"any", "G", "P"},
     regex : {"good", "bad", "none", "blank"},
     match : SUBSET FileNames, to : [FileNames -> FileNames],
     pattern : {"none", "text", "x"}]

ASSUME RemapAssumption ==
    /\ Lines \subseteq LineType
    /\ MaxLines \in Nat
    /\ DEADMAN_MAX_STEPS \in Nat \ {0}

VARIABLES
    mapLines,   \* lines of the map file that are not read yet
    rules,      \* the list of rules
    err,        \* err: a line was wrong
    remapPc,    \* where the procedures are
    reqMode,    \* the request: "G" or "P"
    ruleptr,    \* ruleptr: index of the rule at hand
    current,    \* current: the name so far
    was_match,
    deadman,
    errmsg,     \* what the client is told: the default, a message of the rule, nothing
    visited,    \* rules that were tried
    again       \* a rule was tried twice

engine == <<reqMode, ruleptr, current, was_match, deadman, errmsg, visited, again>>
remap == <<mapLines, rules, err, remapPc, engine>>

Rule == rules[ruleptr]

-----------------------------------------------------------------------------
(* parserulefile: any wrong line ends the server, but all are read first.   *)

\* RULE_GLOBAL only applies with RULE_REWRITE.
NormalFlags(l) == IF "r" \in l.letters THEN l.letters ELSE l.letters \ {"g"}

\* parseline returns -1.
LineWrong(l) ==
    \/ "?" \in l.letters
    \/ {"r", "~"} \subseteq l.letters
    \/ l.regex \in {"bad", "none"}

ParseLine ==
    /\ remapPc = "parse" /\ mapLines # <<>>
    /\ LET l == Head(mapLines)
       IN  /\ err' = (err \/ LineWrong(l))
           /\ rules' = IF LineWrong(l) \/ l.regex = "blank" THEN rules
                       ELSE Append(rules, [flags |-> NormalFlags(l), mode |-> l.mode,
                                           match |-> l.match, to |-> l.to,
                                           pattern |-> l.pattern])
    /\ mapLines' = Tail(mapLines)
    /\ UNCHANGED <<remapPc, engine>>

\* exit(EX_CONFIG), or the rules are in place.
ParseDone ==
    /\ remapPc = "parse" /\ mapLines = <<>>
    /\ remapPc' = IF err THEN "config" ELSE "idle"
    /\ UNCHANGED <<mapLines, rules, err, engine>>

-----------------------------------------------------------------------------
(* rewrite_access and rewrite_string.                                       *)

\* Faulty variant: !--deadman.
DeadmanStartShort == DEADMAN_MAX_STEPS - 1

DeadmanStart == DEADMAN_MAX_STEPS

\* A request for a name; without rules the name stays as it is.
RewriteAccess(m, name) ==
    /\ remapPc = "idle"
    /\ reqMode' = m
    /\ current' = name
    /\ ruleptr' = 1
    /\ deadman' = DeadmanStart
    /\ errmsg' = "default"
    /\ remapPc' = IF rules = <<>> THEN "named" ELSE "rule"
    /\ UNCHANGED <<mapLines, rules, err, was_match, visited, again>>

\* The for loop ends: the name is the one at hand.
LastRule ==
    /\ remapPc = "rule" /\ ruleptr > Len(rules)
    /\ remapPc' = "named"
    /\ UNCHANGED <<mapLines, rules, err, engine>>

\* The rule is for the other kind of request.
SkipRule ==
    /\ remapPc = "rule" /\ ruleptr <= Len(rules)
    /\ Rule.mode \notin {"any", reqMode}
    /\ ruleptr' = ruleptr + 1
    /\ UNCHANGED <<mapLines, rules, err, remapPc, reqMode, current, was_match, deadman,
                   errmsg, visited, again>>

Applicable == remapPc = "rule" /\ ruleptr <= Len(rules) /\ Rule.mode \in {"any", reqMode}

\* Faulty variant: nothing counts the rules.
DeadmanLeftAll == DEADMAN_MAX_STEPS

\* deadman--
DeadmanLeft == deadman - 1

TryRule ==
    /\ Applicable /\ deadman > 0
    /\ deadman' = DeadmanLeft
    /\ visited' = visited \cup {ruleptr}
    /\ again' = (again \/ ruleptr \in visited)
    /\ remapPc' = "match"
    /\ UNCHANGED <<mapLines, rules, err, reqMode, ruleptr, current, was_match, errmsg>>

\* "Did not terminate!"
BreakLoop ==
    /\ Applicable /\ deadman = 0
    /\ remapPc' = "denied"
    /\ UNCHANGED <<mapLines, rules, err, engine>>

\* regexec, the other way round for an inverted rule.
Matches(r, name) == IF "~" \in r.flags THEN name \notin r.match ELSE name \in r.match

\* genmatchstring with offsets -1 (an inverted rule has no match), or with \x, whose
\* length is 0 in the pass that only measures: what it writes is undefined.
Undefined(r) ==
    /\ r.flags \cap {"a", "r"} # {}
    /\ r.pattern = "x" \/ (r.pattern = "text" /\ "~" \in r.flags)

\* The process may not survive it.
Fault ==
    /\ remapPc = "match" /\ Matches(Rule, current) /\ Undefined(Rule)
    /\ remapPc' = "fault"
    /\ UNCHANGED <<mapLines, rules, err, engine>>

\* RULE_ABORT: no name, with the rule's message if it has one.
Abort ==
    /\ remapPc = "match" /\ Matches(Rule, current) /\ "a" \in Rule.flags
    /\ was_match' = TRUE
    /\ errmsg' = IF Rule.pattern = "none" THEN "none" ELSE "custom"
    /\ remapPc' = "denied"
    /\ UNCHANGED <<mapLines, rules, err, reqMode, ruleptr, current, deadman, visited, again>>

\* The body of the do loop; RULE_GLOBAL repeats it, which deadman does not see.
Match ==
    /\ remapPc = "match" /\ Matches(Rule, current) /\ "a" \notin Rule.flags
    /\ was_match' = TRUE
    /\ current' = IF "r" \in Rule.flags THEN Rule.to[current] ELSE current
    /\ remapPc' = IF "g" \in Rule.flags THEN "match" ELSE "after"
    /\ UNCHANGED <<mapLines, rules, err, reqMode, ruleptr, deadman, errmsg, visited, again>>

NoMatch ==
    /\ remapPc = "match" /\ ~Matches(Rule, current)
    /\ remapPc' = "after"
    /\ UNCHANGED <<mapLines, rules, err, engine>>

\* What follows a rule.  A restart sets ruleptr to the first rule, and the for
\* loop then goes on to its successor.
AfterRule ==
    /\ remapPc = "after"
    /\ remapPc' = IF was_match /\ "e" \in Rule.flags THEN "named" ELSE "rule"
    /\ ruleptr' = CASE was_match /\ "e" \in Rule.flags -> ruleptr
                    [] was_match /\ "e" \notin Rule.flags /\ "s" \in Rule.flags -> 1 + 1
                    [] OTHER -> ruleptr + 1
    /\ was_match' = FALSE
    /\ UNCHANGED <<mapLines, rules, err, reqMode, current, deadman, errmsg, visited, again>>

-----------------------------------------------------------------------------
RemapStart ==
    /\ rules = <<>> /\ err = FALSE
    /\ remapPc = "parse"
    /\ reqMode = "G" /\ ruleptr = 1
    /\ current = CHOOSE n \in FileNames : TRUE
    /\ was_match = FALSE /\ deadman = DEADMAN_MAX_STEPS /\ errmsg = "none"
    /\ visited = {} /\ again = FALSE

RemapInit ==
    /\ mapLines \in UNION {[1 .. n -> Lines] : n \in 0 .. MaxLines}
    /\ RemapStart

RewriteStep ==
    \/ LastRule \/ SkipRule \/ TryRule \/ BreakLoop
    \/ Fault \/ Abort \/ Match \/ NoMatch \/ AfterRule

RemapNext ==
    \/ ParseLine \/ ParseDone
    \/ \E m \in {"G", "P"}, name \in FileNames : RewriteAccess(m, name)
    \/ RewriteStep

-----------------------------------------------------------------------------
(* Properties.                                                              *)

\* A rule that repeats itself for ever from some name.
Repeats(r) ==
    /\ {"r", "g"} \subseteq r.flags /\ "a" \notin r.flags
    /\ \E s \in SUBSET r.match : s # {} /\ \A n \in s : r.to[n] \in s

\* deadman stops whatever rules that restart would go on for ever (remap.c:351-357):
\* rewriting ends, unless a global rule (remap.c:359-410), which deadman does not
\* count, matches its own result again and again.
RewriteEnds ==
    (remapPc = "rule" /\ ~\E i \in 1 .. Len(rules) : Repeats(rules[i]))
        ~> remapPc \in {"named", "denied", "fault"}

\* "Remap table failure" (remap.c:341), which refuses the request, is only the answer to
\* a table that goes round: a table that fits deadman's count and visits no rule twice is
\* never taken for a loop, and rules only come round again after one that restarts.
FailureMeansLoop ==
    /\ remapPc = "denied" /\ errmsg = "default" =>
         again \/ ruleptr \in visited \/ Len(rules) > DEADMAN_MAX_STEPS
    /\ again => \E i \in visited : "s" \in rules[i].flags

=============================================================================
