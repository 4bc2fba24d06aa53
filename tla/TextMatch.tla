------------------------------ MODULE TextMatch -----------------------------
(***************************************************************************)
(* How the tests compare the output of a command with the text of a step   *)
(* (common/output.py, common/lib/text.py, dnf/steps/cmd.py).               *)
(*                                                                         *)
(* A line is a value; EMPTY is the empty line, UPDATING, SYNC and LOADED   *)
(* are the lines dnf prints when it loads repositories. A regular          *)
(* expression is the set of lines it is found in; an expression of a step  *)
(* may be optional (written with a question mark first) or blank.          *)
(***************************************************************************)
EXTENDS Naturals, Sequences, SequencesExt, FiniteSets

EMPTY == ""
UPDATING == "Updating and loading repositories:"
SYNC == "repo 100% | 1 KiB/s | 1 KiB | 00m00s"
LOADED == "Repositories loaded."
REPOSYNC == "<REPOSYNC>"

Pattern(optional, finds) == [optional |-> optional, blank |-> FALSE, finds |-> finds]
BlankPattern == [optional |-> FALSE, blank |-> TRUE, finds |-> {EMPTY}]

LineMatches(p, line) == line \in p.finds

(***************************************************************************)
(* Line by line: optional expressions that do not match are dropped until  *)
(* one matches or must match.                                              *)
(***************************************************************************)
Droppable(p, line) == p.optional /\ line \notin p.finds

(* The expressions that are left and cannot be dropped.                    *)
Candidates(patterns, used, line) ==
  {i \in (used + 1)..Len(patterns) : ~Droppable(patterns[i], line)}

MatchLineForgiving(s, line, patterns) ==   \* mutant: lines after the last expression are free
  LET left == Candidates(patterns, s.used, line)
      i == CHOOSE i \in left : \A j \in left : i <= j
  IN IF s.used = Len(patterns) THEN s
     ELSE IF left = {} THEN [s EXCEPT !.ok = FALSE]
     ELSE [used |-> i, ok |-> s.ok /\ LineMatches(patterns[i], line)]

MatchLine(s, line, patterns) ==
  LET left == Candidates(patterns, s.used, line)
      i == CHOOSE i \in left : \A j \in left : i <= j
  IN CASE s.used = Len(patterns) -> [s EXCEPT !.ok = @ /\ line = EMPTY]
       [] s.used # Len(patterns) /\ left = {} -> [s EXCEPT !.ok = FALSE]
       [] OTHER -> [used |-> i, ok |-> s.ok /\ LineMatches(patterns[i], line)]

lines_match_to_regexps_line_by_line(lines, patterns) ==
  LET matched[i \in 0..Len(lines)] ==
        IF i = 0 THEN [used |-> 0, ok |-> TRUE]
        ELSE MatchLine(matched[i - 1], lines[i], patterns)
  IN matched[Len(lines)].ok /\ matched[Len(lines)].used = Len(patterns)

(***************************************************************************)
(* <REPOSYNC>: at the place of the first placeholder the lines about       *)
(* repositories are dropped from what was found. Dropping lines from line  *)
(* n on is going on to a later one.                                        *)
(***************************************************************************)
SkipAll(lines, n, x) ==
  LET other == {i \in n..Len(lines) : lines[i] # x}
  IN IF other = {} THEN Len(lines) + 1 ELSE CHOOSE i \in other : \A j \in other : i <= j

SkipOne(lines, n, x) == IF n <= Len(lines) /\ lines[n] = x THEN n + 1 ELSE n

Loaded(lines, n) ==
  SkipOne(lines, SkipAll(lines, SkipOne(lines, n, UPDATING), SYNC), LOADED)

StripToLoaded(lines, n) ==      \* mutant: repositories of the command line stay
  SubSeq(lines, 1, n - 1) \o SubSeq(lines, Loaded(lines, n), Len(lines))

strip_reposync_dnf5(lines, n) ==
  SubSeq(lines, 1, n - 1) \o SubSeq(lines, SkipAll(lines, Loaded(lines, n), SYNC), Len(lines))

Placeholders(expected) == {i \in DOMAIN expected : expected[i] = REPOSYNC}

handle_reposync(expected, found) ==
  LET n == CHOOSE i \in Placeholders(expected) : \A j \in Placeholders(expected) : i <= j
  IN IF Placeholders(expected) = {} THEN [expected |-> expected, found |-> found]
     ELSE [expected |-> RemoveAt(expected, n),
           found |-> IF Len(found) < n THEN found ELSE strip_reposync_dnf5(found, n)]

(* rstrip().split('\n'): a text has at least one line, an output of no     *)
(* text none.                                                              *)
Stripped(lines) ==
  LET text == {i \in DOMAIN lines : lines[i] # EMPTY}
  IN IF text = {} THEN << >>
     ELSE SubSeq(lines, 1, CHOOSE i \in text : \A j \in text : j <= i)

then_stdout_is(text, stdout) ==
  LET expected == IF Stripped(text) = << >> THEN <<EMPTY>> ELSE Stripped(text)
      clean == handle_reposync(expected, Stripped(stdout))
  IN clean.expected = clean.found

(* "stdout matches line by line" keeps empty lines. patterns is a function *)
(* from the lines of the text to the expressions they are.                 *)
then_stdout_matches_line_by_line(text, stdout, patterns) ==
  LET clean == handle_reposync(text, stdout)
  IN lines_match_to_regexps_line_by_line(
       clean.found, [i \in DOMAIN clean.expected |-> patterns[clean.expected[i]]])

(***************************************************************************)
(* Lines and sections somewhere in the output.                             *)
(***************************************************************************)
then_stdout_contains_lines(text, stdout) == Range(text) \subseteq Range(stdout)

then_stdout_contains_lines_matching(patterns, stdout) ==
  \A i \in DOMAIN patterns : \E j \in DOMAIN stdout : LineMatches(patterns[i], stdout[j])

then_stdout_does_not_contain_lines(text, stdout) == Range(text) \cap Range(stdout) = {}

(* A section goes from its heading to an empty line or a known heading.    *)
SectionLine(r, line, heading, headings) ==
  CASE r.state = "before" -> IF line = heading THEN [r EXCEPT !.state = "in"] ELSE r
    [] r.state = "in" -> IF line = EMPTY \/ line \in headings THEN [r EXCEPT !.state = "after"]
                         ELSE [r EXCEPT !.content = Append(@, line)]
    [] OTHER -> r

extract_section_content_from_text(heading, headings, text) ==
  LET read[i \in 0..Len(text)] ==
        IF i = 0 THEN [state |-> "before", content |-> << >>]
        ELSE SectionLine(read[i - 1], text[i], heading, headings)
  IN read[Len(text)].content

then_stdout_section_contains(heading, headings, p, stdout) ==
  \E line \in Range(extract_section_content_from_text(heading, headings, stdout)) :
    LineMatches(p, line)

then_stdout_section_does_not_contain(heading, headings, p, stdout) ==
  ~then_stdout_section_contains(heading, headings, p, stdout)

----------------------------------------------------------------------------
(* Properties.                                                             *)

Mandatory(patterns) == {i \in DOMAIN patterns : ~patterns[i].optional}

(* Some patterns, all mandatory ones among them, match the first lines,    *)
(* one each and in their order, and the lines that are left are empty.     *)
Alignable(lines, patterns) ==
  \E n \in 0..Len(lines) : \E f \in [1..n -> DOMAIN patterns] :
    /\ \A i, j \in 1..n : i < j => f[i] < f[j]
    /\ Mandatory(patterns) \subseteq Range(f)
    /\ \A i \in 1..n : LineMatches(patterns[f[i]], lines[i])
    /\ \A i \in (n + 1)..Len(lines) : lines[i] = EMPTY

(* No line is found by an optional expression and by a later one, and the  *)
(* last expression is mandatory.                                           *)
Unambiguous(patterns) ==
  /\ patterns # << >> => ~Last(patterns).optional
  /\ \A i, j \in DOMAIN patterns : i < j /\ patterns[i].optional =>
       patterns[i].finds \cap patterns[j].finds = {}

(* A comparison line by line that passes is a true one: every mandatory    *)
(* expression matches a line of its own, in order, and no text is left     *)
(* over; and a true one passes unless optional expressions are ambiguous   *)
(* or last (common/lib/text.py:9-34).                                      *)
MatchesInOrder(lines, patterns) ==
  LET passes == lines_match_to_regexps_line_by_line(lines, patterns)
  IN /\ passes => Alignable(lines, patterns)
     /\ Alignable(lines, patterns) /\ Unambiguous(patterns) => passes

(* The lines n..(m - 1) are some dnf may print where it loads repositories. *)
IsReposync(lines, n, m) ==
  \E a, b, c \in n..m :
    /\ a <= b /\ b <= c /\ a <= n + 1 /\ c <= b + 1
    /\ \A i \in n..(a - 1) : lines[i] = UPDATING
    /\ \A i \in a..(b - 1) \cup c..(m - 1) : lines[i] = SYNC
    /\ \A i \in b..(c - 1) : lines[i] = LOADED

(* "stdout is" passes exactly if the output is the text, with lines about  *)
(* repositories at the first placeholder only, unless the text itself has  *)
(* such lines; an empty text never passes, since an empty output has no    *)
(* line (common/output.py:18-75).                                          *)
StdoutIsSound(text, stdout) ==
  LET e == Stripped(text)
      f == Stripped(stdout)
      split(n, m) == /\ n <= Len(f) + 1 /\ SubSeq(f, 1, n - 1) = SubSeq(e, 1, n - 1)
                     /\ IsReposync(f, n, m)
                     /\ SubSeq(f, m, Len(f)) = SubSeq(e, n + 1, Len(e))
  IN IF Placeholders(e) = {} THEN then_stdout_is(text, stdout) <=> e = f /\ e # << >>
     ELSE LET n == CHOOSE i \in Placeholders(e) : \A j \in Placeholders(e) : i <= j
          IN /\ then_stdout_is(text, stdout) => \E m \in n..(Len(f) + 1) : split(n, m)
             /\ (\E m \in n..(Len(f) + 1) : split(n, m)) /\
                Range(e) \cap {UPDATING, SYNC, LOADED} = {} => then_stdout_is(text, stdout)

(* A section is what stands between its first heading and the next empty   *)
(* line or heading; and of the checks of single lines those that ask for   *)
(* them and those that forbid them never both pass, and pass and fail for  *)
(* an output that is the text (dnf/steps/cmd.py:26-44, 229-276).           *)
LinesAreFound(text, stdout, heading, headings) ==
  LET first(S) == IF S = {} THEN Len(stdout) + 1 ELSE CHOOSE i \in S : \A j \in S : i <= j
      h == first({i \in DOMAIN stdout : stdout[i] = heading})
      e == first({i \in DOMAIN stdout : i > h /\ stdout[i] \in headings \cup {EMPTY}})
      exactly == [i \in DOMAIN text |-> Pattern(FALSE, {text[i]})]
  IN /\ extract_section_content_from_text(heading, headings, stdout) = SubSeq(stdout, h + 1, e - 1)
     /\ \A i \in DOMAIN text :
          then_stdout_section_does_not_contain(heading, headings, exactly[i], stdout) <=>
            \A j \in (h + 1)..(e - 1) : stdout[j] # text[i]
     /\ text # << >> => ~(/\ then_stdout_contains_lines(text, stdout)
                         /\ then_stdout_does_not_contain_lines(text, stdout))
     /\ Placeholders(text) = {} /\ text # << >> /\ then_stdout_is(text, stdout) =>
          then_stdout_contains_lines(Stripped(text), stdout)
     /\ then_stdout_contains_lines(text, stdout) <=> then_stdout_contains_lines_matching(exactly, stdout)
     /\ then_stdout_matches_line_by_line(text, stdout,
                                         [l \in Range(text) |-> Pattern(FALSE, {l})]) =>
          Range(text) \ {REPOSYNC} \subseteq Range(stdout)
=============================================================================
