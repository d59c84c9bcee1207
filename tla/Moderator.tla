----------------------------- MODULE Moderator ------------------------------
(***************************************************************************)
(* runtime/loader.go and moderation/moderator.go: LoadAll reads the        *)
(* forbidden words, NewModerator normalizes them, and Censor looks for     *)
(* them in a normalized copy of a text and puts stars over their place in  *)
(* the original.  A rune is a string; the euro sign is "EUR".  The matcher *)
(* (goahocorasick) is external: it yields every occurrence of every        *)
(* pattern.                                                                *)
(***************************************************************************)
EXTENDS Integers, Sequences, FiniteSets, FiniteSetsExt, SortedSets

CONSTANTS
  Alphabet,        \* the runes texts are made of
  Upper,           \* Upper[r]: the capital letters among them, to their small ones
  Punctuation,     \* runes that are punctuation, symbols or space for unicode
  Space,           \* those of them TrimSpace removes at the ends of a line
  Directories,     \* what the embedded directory may hold: sets of dictionary
                   \* files, a file being the set of its lines
  censoredChar,    \* the replacement
  MaxText          \* bound: length of a text

ASSUME ModeratorAssumption ==
  /\ Upper \in [DOMAIN Upper -> Alphabet] /\ DOMAIN Upper \subseteq Alphabet
  /\ Space \subseteq Punctuation
  /\ Punctuation \subseteq Alphabet /\ censoredChar \in Alphabet
  /\ Punctuation \cap {"a", "e", "i", "o", "s"} = {}   \* the letters of simplifyRune
  /\ \A dir \in Directories : UNION dir \subseteq Seq(Alphabet)
  /\ MaxText \in Nat

VARIABLES
  original,     \* the text given to Censor
  patterns,     \* the patterns of the automaton
  matches,      \* the matches still to apply
  origRunes,    \* the result so far
  foundWords,   \* the words collected
  pc

moderatorVars == <<original, patterns, matches, origRunes, foundWords, pc>>

ToLower(r) == IF r \in DOMAIN Upper THEN Upper[r] ELSE r

simplifyRune(r) ==
  CASE r \in {"4", "@"} -> "a"
    [] r \in {"3", "EUR"} -> "e"
    [] r \in {"1", "!", "|"} -> "i"
    [] r = "0" -> "o"
    [] r \in {"5", "$"} -> "s"
    [] OTHER -> r

isNoise(r) ==
  /\ r \notin {"4", "@", "3", "EUR", "1", "!", "|", "0", "5", "$"}
  /\ r \in Punctuation

\* OrigIdx remembers where a rune that is not noise stood.
OrigIdx(s) == Ascending({i \in DOMAIN s : ~isNoise(s[i])})

\* The words are simplified before noise is removed ...
normalizeRunes(s) ==
  LET clean == [i \in DOMAIN s |-> simplifyRune(s[i])]
      at == OrigIdx(clean)
  IN  [k \in DOMAIN at |-> ToLower(clean[at[k]])]

\* ... and the text after.
Normalized(s) == LET at == OrigIdx(s) IN [k \in DOMAIN at |-> ToLower(simplifyRune(s[at[k]]))]

\* MultiPatternSearch: where each pattern occurs.
Match == [Pos : Nat, Word : Seq(Alphabet)]
MultiPatternSearch(text, words) ==
  {m \in [Pos : 1 .. Len(text), Word : words] :
     /\ m.Pos + Len(m.Word) - 1 <= Len(text)
     /\ SubSeq(text, m.Pos, m.Pos + Len(m.Word) - 1) = m.Word}

TrimSpace(line) ==
  LET ink == {i \in DOMAIN line : line[i] \notin Space}
  IN  IF ink = {} THEN <<>> ELSE SubSeq(line, Min(ink), Max(ink))

LoadAll(dir) == {TrimSpace(line) : line \in UNION dir} \ {<<>>}
NewModerator(censoredWords) == {normalizeRunes(w) : w \in censoredWords} \ {<<>>}

ModeratorInit ==
  /\ original = <<>> /\ patterns = {} /\ matches = {} /\ origRunes = <<>> /\ foundWords = {}
  /\ pc = "load"

\* The orchestrator prepares the moderator: ErrEmptyWords if no line holds a
\* word, ErrNoValidPatterns if no word is more than noise.
Load(dir) ==
  /\ pc = "load"
  /\ patterns' = NewModerator(LoadAll(dir))
  /\ pc' = IF patterns' = {} THEN "failed" ELSE "ready"
  /\ UNCHANGED <<original, matches, origRunes, foundWords>>

Texts == UNION {[1 .. n -> Alphabet] : n \in 0 .. MaxText}

Censor ==
  /\ pc = "ready"
  /\ original' \in Texts /\ origRunes' = original'
  /\ pc' = "search"
  /\ UNCHANGED <<patterns, matches, foundWords>>

Search ==
  /\ pc = "search"
  /\ matches' = MultiPatternSearch(Normalized(original), patterns)
  /\ pc' = "apply"
  /\ UNCHANGED <<original, patterns, origRunes, foundWords>>

\* Mutant: the position in the normalized text is used as it is.
StarNormalized(m, runes) ==
  [i \in DOMAIN runes |->
     IF i \in m.Pos .. (m.Pos + Len(m.Word) - 1) THEN censoredChar ELSE runes[i]]

\* The loop over the matches, in the order the matcher gives them.
Star(m, runes) ==
  LET origStart == OrigIdx(original)[m.Pos]
      origEnd == OrigIdx(original)[m.Pos + Len(m.Word) - 1]
  IN  [i \in DOMAIN runes |-> IF i \in origStart .. origEnd THEN censoredChar ELSE runes[i]]

Apply(m) ==
  /\ pc = "apply"
  /\ m \in matches
  /\ origRunes' = Star(m, origRunes)
  /\ foundWords' = foundWords \cup {m.Word}
  /\ matches' = matches \ {m}
  /\ UNCHANGED <<original, patterns, pc>>

Finish ==
  /\ pc = "apply"
  /\ matches = {}
  /\ pc' = "done"
  /\ UNCHANGED <<original, patterns, matches, origRunes, foundWords>>

ModeratorNext ==
  \/ \E dir \in Directories : Load(dir)
  \/ Censor
  \/ Search
  \/ \E m \in matches : Apply(m)
  \/ Finish

ModeratorSpec == ModeratorInit /\ [][ModeratorNext]_moderatorVars

-----------------------------------------------------------------------------
(* The search position and the two texts keep the types the code gives them. *)
ModeratorTypeOK ==
  /\ original \in Seq(Alphabet) /\ origRunes \in Seq(Alphabet)
  /\ patterns \subseteq Seq(Alphabet)
  /\ matches \subseteq Match
  /\ foundWords \subseteq patterns
  /\ pc \in {"load", "failed", "ready", "search", "apply", "done"}

\* What a reader sees as an occurrence: a stretch of the original that begins
\* and ends with a rune that is not noise and reads as a forbidden word.
Occurrence(i, j) ==
  /\ i <= j
  /\ ~isNoise(original[i]) /\ ~isNoise(original[j])
  /\ normalizeRunes(SubSeq(original, i, j)) \in patterns

Forbidden(k) ==
  \E i, j \in DOMAIN original : i <= k /\ k <= j /\ Occurrence(i, j)

\* Censor stars every rune of every occurrence, the noise inside it included,
\* and changes nothing else: the positions kept in OrigIdx are the right ones.
\* The words it reports for telemetry are the ones that occur.
CensorIsExact ==
  pc = "done" =>
    /\ Len(origRunes) = Len(original)
    /\ \A k \in DOMAIN original :
         origRunes[k] = IF Forbidden(k) THEN censoredChar ELSE original[k]
    /\ foundWords = {w \in patterns : \E i, j \in DOMAIN original :
                        Occurrence(i, j) /\ normalizeRunes(SubSeq(original, i, j)) = w}
=============================================================================
