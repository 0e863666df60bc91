------------------------------- MODULE Rules -------------------------------
(***************************************************************************)
(* The bypass rules (internal/rules/rules.go): the text the user gives is  *)
(* split into exact names and suffixes, a host is matched against both,    *)
(* and the console shows the rules that are in force.                      *)
(*                                                                         *)
(* A name is the sequence of its labels, what a dot separates; the empty   *)
(* name has one empty label.  Upper case and surrounding blanks, which the *)
(* code removes on both sides, are left out.                               *)
(***************************************************************************)
EXTENDS Sequences, SequencesExt

CONSTANTS
    Labels,       \* what may stand between two dots
    DefaultBypass,\* the lines the program starts with
    Texts,        \* the texts a user may give: sets of lines
    Comment,      \* a line that begins with #
    Colons,       \* what a label that has a colon in it keeps before that,
                  \* brackets trimmed: a function from such labels to labels
    Hosts         \* hosts that may be dialled: [asked, means], the host as
                  \* Match is given it and the name it stands for

Empty == ""
Line  == Seq(Labels) \ {<<>>}
Blank == <<Empty>>
IsSuffixRule(line) == Len(line) > 1 /\ line[1] \in {Empty, "*"}

(* A name or an IPv4 address is asked for as it is or with a port, which   *)
(* is in its last label.                                                   *)
HasColon(line) == \E i \in DOMAIN line : line[i] \in DOMAIN Colons
WithPort(asked, name) ==
    /\ Len(asked) = Len(name)
    /\ asked[Len(name)] \in DOMAIN Colons
    /\ name = [asked EXCEPT ![Len(name)] = Colons[asked[Len(name)]]]

ASSUME RulesAssumption ==
    /\ Empty \in Labels
    /\ DefaultBypass \subseteq Line /\ \A lines \in Texts : lines \subseteq Line
    /\ Comment \in Line /\ ~IsSuffixRule(Comment)
    /\ \A h \in Hosts :
          /\ h.asked \in Line /\ h.means \in Line
          /\ h.means[1] \notin DOMAIN Colons =>
                ~HasColon(h.means) /\ (h.asked = h.means \/ WithPort(h.asked, h.means))

VARIABLES
    exact,        \* m.exact
    suffix,       \* m.suffix
    written       \* history: the lines the user gave last

rulesVars == <<exact, suffix, written>>

ExactOf(lines)  == {line \in lines \ {Blank, Comment} : ~IsSuffixRule(line)}
SuffixOf(lines) == {Tail(line) : line \in {l \in lines \ {Blank, Comment} : IsSuffixRule(l)}}

SetRulesAdds(lines) ==
    /\ exact'  = exact \cup ExactOf(lines)
    /\ suffix' = suffix \cup SuffixOf(lines)
    /\ written' = lines
SetRules(lines) ==
    /\ exact'  = ExactOf(lines)
    /\ suffix' = SuffixOf(lines)
    /\ written' = lines

(* A host ends at its first colon. *)
BeforeColon(host) ==
    LET colons == {i \in DOMAIN host : host[i] \in DOMAIN Colons} IN
    IF colons = {} THEN host
    ELSE LET i == CHOOSE k \in colons : \A j \in colons : k <= j
         IN  SubSeq(host, 1, i - 1) \o <<Colons[host[i]]>>

Match(host) ==
    LET name == BeforeColon(host) IN
    name \in exact \/ \E s \in suffix : name = s \/ IsStrictSuffix(s, name)

(* What the console shows. *)
ListStarless == exact \cup suffix
List == exact \cup {<<Empty>> \o s : s \in suffix}

RulesInit ==
    /\ exact = ExactOf(DefaultBypass) /\ suffix = SuffixOf(DefaultBypass)
    /\ written = DefaultBypass
RulesNext == \E lines \in Texts : SetRules(lines)
RulesSpec == RulesInit /\ [][RulesNext]_rulesVars
-----------------------------------------------------------------------------
(* Properties                                                              *)

(* What a line says of a name (the examples at rules.go:22 and the test):  *)
(* the name itself, or all that end in it, itself included.                *)
Covers(line, name) ==
    IF line \in {Blank, Comment} THEN FALSE
    ELSE IF IsSuffixRule(line) THEN IsSuffix(Tail(line), name)
    ELSE line = name

(* "Match reports whether host (without port) should bypass aggregation"   *)
(* (rules.go:53): exactly the hosts that some line covers, those with a    *)
(* port and IPv6 literals included.                                        *)
BypassAsWritten ==
    \A h \in Hosts : Match(h.asked) <=> \E line \in written : Covers(line, h.means)

(* The same for hosts that are names or IPv4 addresses.                    *)
BypassOfNames ==
    \A h \in Hosts : h.means[1] \notin DOMAIN Colons =>
        (Match(h.asked) <=> \E line \in written : Covers(line, h.means))

(* A console that sends back the rules it was shown changes nothing.       *)
RoundTrip == ExactOf(List) = exact /\ SuffixOf(List) = suffix
=============================================================================
