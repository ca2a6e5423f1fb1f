------------------------------ MODULE Composer ------------------------------
(***************************************************************************)
(* The context composer, src/src/context/composer.rs: the lines of seven    *)
(* sections are packed into a prompt under a budget of tokens.              *)
(*                                                                         *)
(* Each section is granted its share of the budget and whatever the         *)
(* sections before it left over.  `fill` takes its lines in order, keeps a   *)
(* line that fits and passes over one that does not.  A section with a kept *)
(* line is written under its title.                                         *)
(*                                                                         *)
(* Abstracted: a line is its number of characters, drawn freely; which rows *)
(* the lines are made from, and their ranking, is left out.                 *)
(***************************************************************************)
EXTENDS Integers, Sequences

CONSTANTS
  Budgets,     \* budgets a caller may ask for (settings.context_token_budget)
  LineLength,  \* lengths of lines, in characters
  MaxLines     \* bound: lines of a section

ASSUME ComposerAssumption == Budgets \subseteq Nat /\ LineLength \subseteq Nat /\ MaxLines \in Nat

VARIABLES
  budget,   \* tokens the caller asked for
  section,  \* the section that is being filled; past the last one at the end
  granted,  \* section_budget
  lines,    \* lines of the section seen so far
  kept,     \* how many of them were kept
  used,     \* tokens of the kept lines
  chars,    \* characters of the kept lines, each with a line break
  dropped,  \* tokens of the lines that were passed over
  spent,    \* tokens used by the sections before this one
  text      \* characters written by the sections before this one

vars == <<budget, section, granted, lines, kept, used, chars, dropped, spent, text>>

\* SECTIONS: the shares in percent, and the lengths of the titles.
Share == <<10, 30, 15, 10, 10, 10, 15>>
Title == <<13, 17, 16, 11, 10, 12, 13>>

Section == 1 .. 7
Done == 8

\* pyfmt::tokens
Tokens(n) == n \div 4 + 1

\* (budget as f64 * share) as i64, exact for the budgets that settings allow.
Allotted(b, s) == (b * Share[s]) \div 100

Init ==
  /\ budget \in Budgets
  /\ section = 1
  /\ granted = Allotted(budget, 1)
  /\ lines = 0
  /\ kept = 0
  /\ used = 0
  /\ chars = 0
  /\ dropped = {}
  /\ spent = 0
  /\ text = 0

\* mutant: the section is over at the first line that does not fit
FitsSoFar(n) == dropped = {} /\ used + Tokens(n) <= granted

Fits(n) == used + Tokens(n) <= granted

KeepLine(n) ==
  /\ Fits(n)
  /\ kept' = kept + 1
  /\ used' = used + Tokens(n)
  /\ chars' = chars + n + 1
  /\ UNCHANGED dropped

DropLine(n) ==
  /\ ~Fits(n)
  /\ dropped' = dropped \cup {Tokens(n)}
  /\ UNCHANGED <<kept, used, chars>>

\* One turn of the loop in fill.
Line == \E n \in LineLength :
  /\ section \in Section
  /\ lines < MaxLines
  /\ lines' = lines + 1
  /\ KeepLine(n) \/ DropLine(n)
  /\ UNCHANGED <<budget, section, granted, spent, text>>

\* mutant: the next section gets the grant of this one, used or not
CarryAll == granted

\* carry: what the section leaves to the next.
Carry == granted - used

\* "## ", the title, and a blank line after the section before.
Heading(s) == 3 + Title[s] + IF text > 0 THEN 2 ELSE 0

\* One turn of the loop over SECTIONS ends, and the next begins.
EndSection ==
  /\ section \in Section
  /\ section' = section + 1
  /\ granted' = Carry + IF section < 7 THEN Allotted(budget, section + 1) ELSE 0
  /\ spent' = spent + used
  /\ text' = IF kept > 0 THEN text + Heading(section) + chars ELSE text
  /\ lines' = 0
  /\ kept' = 0
  /\ used' = 0
  /\ chars' = 0
  /\ dropped' = {}
  /\ UNCHANGED budget

Next == Line \/ EndSection

Spec == Init /\ [][Next]_vars

-----------------------------------------------------------------------------
(* Properties.                                                             *)

TypeOK ==
  /\ budget \in Nat
  /\ section \in Section \cup {Done}
  /\ granted \in Nat
  /\ lines \in Nat
  /\ kept \in Nat
  /\ used \in Nat
  /\ chars \in Nat
  /\ dropped \subseteq Nat
  /\ spent \in Nat
  /\ text \in Nat

\* The lines kept in all sections together cost no more than the budget, though a
\* section may use far more than its share: what is carried over was left over,
\* and rounding the shares never adds up to a token too many.
LinesWithinBudget == spent + used <= budget

\* Characters of all titles and of the breaks between sections, in tokens.
Overhead == 32

\* The prompt itself is not within the budget, which tests/worker.rs:135 asserts for
\* its data and SPEC.md:1080 asks for: the titles come on top.  This is by how much;
\* the line breaks are paid for by rounding the tokens of each line up (composer.rs:32,
\* pyfmt.rs:8).
TextBounded == section = Done => Tokens(text) <= budget + Overhead

\* A line that was passed over would not fit at the end of its section either:
\* `fill` goes on after a line that is too long, and loses none that fits.
NothingFittingDropped == \A t \in dropped : used + t > granted

=============================================================================
