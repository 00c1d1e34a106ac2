------------------------------- MODULE Globs -------------------------------
(***************************************************************************)
(* The glob matcher of lib/glob.cc with the Aho-Corasick automaton of      *)
(* lib/aho-corasick.cc.  A Glob holds patterns with values and returns the *)
(* largest value of the patterns that match a string.  It sorts the        *)
(* patterns into six classes, each with an algorithm of its own.           *)
(*                                                                         *)
(* Strings are sequences of u8.  Two numbers of the code are constants     *)
(* here, so that small instances reach both sides of them: the patterns    *)
(* from which the NFA is used, and the bits of its words (64 and 64).      *)
(***************************************************************************)
EXTENDS Integers, Sequences, FiniteSets, SequencesExt, FiniteSetsExt

CONSTANTS NfaMin, WordBits

ASSUME GlobBounds == NfaMin \in Nat \ {0} /\ WordBits \in Nat \ {0}

StarCh == 42      \* '*'
QuestionCh == 63  \* '?'
OpenCh == 91      \* '['
CloseCh == 93     \* ']'
EscapeCh == 92    \* '\'
DashCh == 45      \* '-'
Negations == {33, 94}  \* '!' and '^'
Bytes == 0..255

From(s, i) == SubSeq(s, i, Len(s))
Upto(x, S) == Max({x} \cup S)
StartsWith(s, p) == IsPrefix(p, s)
EndsWith(s, p) == IsSuffix(p, s)
-----------------------------------------------------------------------------
(* Glob::Pattern *)

Invalid == [ok |-> FALSE, tokens |-> <<>>]
Str(s) == [kind |-> "STRING", str |-> s, chars |-> {}]
Token(kind) == [kind |-> kind, str |-> <<>>, chars |-> {}]
Bracket(cs) == [kind |-> "BRACKET", str |-> <<>>, chars |-> cs]

\* The loop over the inside of a bracket: the characters and what follows ']'.
RECURSIVE BracketChars(_, _)
BracketChars(pat, chars) ==
    LET bad == [ok |-> FALSE, chars |-> {}, rest |-> <<>>]
        p == IF pat # <<>> /\ Head(pat) = EscapeCh THEN Tail(pat) ELSE pat
        esc == Len(p) >= 3 /\ p[3] = EscapeCh
        end == IF esc THEN p[4] ELSE p[3]
    IN  CASE pat = <<>> -> bad
          [] pat # <<>> /\ Head(pat) = CloseCh ->
               [ok |-> TRUE, chars |-> chars, rest |-> Tail(pat)]
          [] OTHER ->
               IF p = <<>> THEN bad
               ELSE IF Len(p) >= 3 /\ p[2] = DashCh
                 THEN IF (esc /\ Len(p) = 3) \/ end < p[1] THEN bad
                      ELSE BracketChars(From(p, IF esc THEN 5 ELSE 4), chars \cup (p[1]..end))
               ELSE BracketChars(Tail(p), chars \cup {p[1]})

\* An ordinary or escaped character extends the last STRING token.
AddChar(tokens, c) ==
    IF tokens # <<>> /\ Last(tokens).kind = "STRING"
      THEN Append(Front(tokens), Str(Append(Last(tokens).str, c)))
      ELSE Append(tokens, Str(<<c>>))

RECURSIVE CompileFrom(_, _)
CompileFrom(pat, tokens) ==
    LET c == Head(pat)
        negate == Len(pat) > 1 /\ pat[2] \in Negations
        br == BracketChars(From(pat, IF negate THEN 3 ELSE 2), {})
    IN  CASE pat = <<>> -> [ok |-> TRUE, tokens |-> tokens]
          [] pat # <<>> /\ c = OpenCh ->
               IF ~br.ok THEN Invalid
               ELSE CompileFrom(br.rest, Append(tokens,
                      Bracket(IF negate THEN Bytes \ br.chars ELSE br.chars)))
          [] pat # <<>> /\ c = QuestionCh ->
               CompileFrom(Tail(pat), Append(tokens, Token("QUESTION")))
          [] pat # <<>> /\ c = StarCh ->
               CompileFrom(Tail(pat), IF tokens # <<>> /\ Last(tokens).kind = "STAR"
                                        THEN tokens ELSE Append(tokens, Token("STAR")))
          [] pat # <<>> /\ c = EscapeCh ->
               IF Len(pat) = 1 THEN Invalid
               ELSE CompileFrom(From(pat, 3), AddChar(tokens, pat[2]))
          [] OTHER -> CompileFrom(Tail(pat), AddChar(tokens, c))

compile(pat) == CompileFrom(pat, <<>>)

\* str.find(s, x): the first occurrence at or after offset x; -1 if none.
StrFind(str, s, x) ==
    LET at == {i \in x..(Len(str) - Len(s)) : SubSeq(str, i + 1, i + Len(s)) = s}
    IN  IF at = {} THEN -1 ELSE Min(at)

\* The loop of Pattern::match: x bytes and y tokens are consumed; (nx, ny) is
\* where the last star is tried again.
RECURSIVE MatchFrom(_, _, _, _, _, _)
MatchFrom(tokens, str, x, y, nx, ny) ==
    LET tok == tokens[y + 1]
        more == x < Len(str)
        retry == nx # -1 /\ nx <= Len(str) /\ MatchFrom(tokens, str, nx, ny, nx, ny)
        next == tokens[y + 2]
        pos == StrFind(str, next.str, x)
    IN  IF x >= Len(str) /\ y >= Len(tokens) THEN TRUE
        ELSE IF y >= Len(tokens) THEN retry
        ELSE CASE tok.kind = "STRING" ->
                    IF StartsWith(From(str, x + 1), tok.str)
                      THEN MatchFrom(tokens, str, x + Len(tok.str), y + 1, nx, ny)
                      ELSE retry
               [] tok.kind = "STAR" ->
                    IF y + 1 < Len(tokens) /\ next.kind = "STRING"
                      THEN pos # -1 /\ MatchFrom(tokens, str, pos + Len(next.str), y + 2, pos + 1, y)
                      ELSE MatchFrom(tokens, str, x, y + 1, x + 1, y)
               [] tok.kind = "QUESTION" ->
                    IF more THEN MatchFrom(tokens, str, x + 1, y + 1, nx, ny) ELSE retry
               [] tok.kind = "BRACKET" ->
                    IF more /\ str[x + 1] \in tok.chars
                      THEN MatchFrom(tokens, str, x + 1, y + 1, nx, ny) ELSE retry

match(tokens, str) ==
    /\ tokens # <<>> /\ Last(tokens).kind = "STRING" => EndsWith(str, Last(tokens).str)
    /\ MatchFrom(tokens, str, 0, 0, -1, -1)
-----------------------------------------------------------------------------
(* Glob::Nfa: one bit per state, in words; each pattern takes a run of     *)
(* consecutive states.                                                     *)

\* The states a pattern takes after its first one: the bytes each accepts.
StateChars(tokens) ==
    FlattenSeq([i \in DOMAIN tokens |->
        CASE tokens[i].kind = "STRING" -> [j \in DOMAIN tokens[i].str |-> {tokens[i].str[j]}]
          [] tokens[i].kind = "STAR" -> <<>>
          [] tokens[i].kind = "QUESTION" -> <<Bytes>>
          [] tokens[i].kind = "BRACKET" -> <<tokens[i].chars>>])

\* Nfa::compile.  patterns is a sequence of [tokens, value].
Nfa_compile(patterns) ==
    LET first[i \in 1..Len(patterns) + 1] ==
            IF i = 1 THEN 0 ELSE first[i - 1] + Len(StateChars(patterns[i - 1].tokens)) + 1
        num == first[Len(patterns) + 1]
        last(i) == first[i + 1] - 1
        stars(i) == {first[i] + Len(StateChars(SubSeq(patterns[i].tokens, 1, k - 1))) :
                       k \in {k \in DOMAIN patterns[i].tokens : patterns[i].tokens[k].kind = "STAR"}}
        accepts == [s \in 0..num - 1 |->
            LET i == CHOOSE i \in DOMAIN patterns : s \in first[i]..last(i)
            IN  IF s = first[i] THEN {} ELSE StateChars(patterns[i].tokens)[s - first[i]]]
        words(S) == [w \in 0..((num + WordBits - 1) \div WordBits) - 1 |->
                       {b \in 0..WordBits - 1 : w * WordBits + b \in S}]
    IN  [initial |-> words({first[i] : i \in DOMAIN patterns}),
         star |-> words(UNION {stars(i) : i \in DOMAIN patterns}),
         accept |-> words({last(i) : i \in DOMAIN patterns}),
         mask |-> [c \in Bytes |-> words({s \in 0..num - 1 : c \in accepts[s]})],
         values |-> [s \in 0..num - 1 |->
                       IF \E i \in DOMAIN patterns : s = last(i)
                         THEN patterns[CHOOSE i \in DOMAIN patterns : s = last(i)].value
                         ELSE -1]]

\* One byte: states <- (states & star) | ((states << 1) & mask[c]), with the
\* carry between the words.
NfaStep(nfa, states, c) ==
    [w \in DOMAIN states |->
       (states[w] \cap nfa.star[w])
         \cup (({b + 1 : b \in states[w] \ {WordBits - 1}}
                  \cup (IF w > 0 /\ WordBits - 1 \in states[w - 1] THEN {0} ELSE {}))
                \cap nfa.mask[c][w])]

Nfa_match(nfa, str) ==
    LET end == FoldLeft(LAMBDA st, c : NfaStep(nfa, st, c), nfa.initial, str)
    IN  Upto(-1, UNION {{nfa.values[w * WordBits + b] : b \in end[w] \cap nfa.accept[w]} :
                          w \in DOMAIN end})
-----------------------------------------------------------------------------
(* AhoCorasick.  A node of the trie is the string that leads to it, so     *)
(* find_child(n, c) is Append(n, c) where that is a node.                  *)

is_literal(pat) == \A i \in DOMAIN pat : pat[i] \notin {StarCh, QuestionCh, OpenCh, EscapeCh}

\* AhoCorasick::can_handle, and the string between the stars.
Middle(pat) ==
    LET p == IF pat # <<>> /\ Head(pat) = StarCh THEN Tail(pat) ELSE pat
    IN  IF p # <<>> /\ Last(p) = StarCh THEN Front(p) ELSE p
can_handle(pat) == Middle(pat) # <<>> /\ is_literal(Middle(pat))

\* The path AhoCorasick::add walks: \0 stands for an end that is anchored.
TriePath(pat) ==
    (IF Head(pat) # StarCh THEN <<0>> ELSE <<>>) \o SelectSeq(pat, LAMBDA c : c # StarCh)
      \o (IF Last(pat) # StarCh THEN <<0>> ELSE <<>>)

\* The trie of the added patterns: nodes, and their values.
TrieNodes(pats) == UNION {{SubSeq(TriePath(p.pat), 1, n) : n \in 0..Len(TriePath(p.pat))} : p \in pats}

\* AhoCorasick::compile: the suffix links, breadth-first, and the values the
\* nodes take over from their suffixes.
AhoCorasick_compile(pats) ==
    LET nodes == TrieNodes(pats)
        link[n \in nodes \ {<<>>}] ==
            LET down[s \in {t \in nodes : Len(t) < Len(n)}] ==
                    IF Append(s, Last(n)) \in nodes THEN Append(s, Last(n))
                    ELSE IF s = <<>> THEN s ELSE down[link[s]]
            IN  IF Len(n) = 1 THEN <<>> ELSE down[link[Front(n)]]
        own(n) == Upto(-1, {p.value : p \in {p \in pats : TriePath(p.pat) = n}})
        value[n \in nodes] ==
            IF Len(n) <= 1 THEN own(n) ELSE Upto(own(n), {value[link[n]]})
    IN  [nodes |-> nodes, link |-> link, value |-> value]

\* Mutant of Walk: a mismatch falls back to the root at once.
Walk_NoLinks(trie, n, c) ==
    IF Append(n, c) \in trie.nodes THEN Append(n, c)
    ELSE IF <<c>> \in trie.nodes THEN <<c>> ELSE <<>>

\* The node reached from n by byte c, over the suffix links.
Walk(trie, n, c) ==
    LET go[m \in trie.nodes] ==
            IF Append(m, c) \in trie.nodes THEN Append(m, c)
            ELSE IF m = <<>> THEN m ELSE go[trie.link[m]]
    IN  go[n]

AhoCorasick_find(trie, str) ==
    FoldLeft(LAMBDA st, c : LET n == Walk(trie, st.n, c)
                            IN  [n |-> n, val |-> Upto(st.val, {trie.value[n]})],
             [n |-> <<>>, val |-> -1], <<0>> \o str \o <<0>>).val
-----------------------------------------------------------------------------
(* Glob *)

NoGlob == [empty |-> TRUE, ok |-> TRUE, all |-> -1, exacts |-> {}, prefixes |-> {},
           suffixes |-> {}, patterns |-> <<>>, trie |-> {}]

\* Glob::add; ok becomes FALSE for an invalid pattern.
add(g0, pat, val) ==
    LET g == [g0 EXCEPT !.empty = FALSE]
        lit(s) == [pat |-> s, value |-> val]
        c == compile(pat)
    IN  IF pat = <<StarCh>> THEN [g EXCEPT !.all = Upto(@, {val})]
        ELSE IF is_literal(pat) THEN [g EXCEPT !.exacts = @ \cup {lit(pat)}]
        ELSE IF Last(pat) = StarCh /\ is_literal(Front(pat))
          THEN [g EXCEPT !.prefixes = @ \cup {lit(Front(pat))}]
        ELSE IF Head(pat) = StarCh /\ is_literal(Tail(pat))
          THEN [g EXCEPT !.suffixes = @ \cup {lit(Tail(pat))}]
        ELSE IF can_handle(pat) THEN [g EXCEPT !.trie = @ \cup {lit(pat)}]
        ELSE IF c.ok THEN [g EXCEPT !.patterns = Append(@, [tokens |-> c.tokens, value |-> val])]
        ELSE [g EXCEPT !.ok = FALSE]

\* The part of Glob::find under call_once.
Prepared(g) ==
    [all |-> g.all,
     exacts |-> {e \in g.exacts : \A d \in g.exacts : d.pat = e.pat => d.value <= e.value},
     prefixes |-> g.prefixes, suffixes |-> g.suffixes,
     patterns |-> IF Len(g.patterns) >= NfaMin THEN <<>> ELSE g.patterns,
     nfa |-> IF Len(g.patterns) >= NfaMin THEN <<Nfa_compile(g.patterns)>> ELSE <<>>,
     trie |-> IF g.trie = {} THEN <<>> ELSE <<AhoCorasick_compile(g.trie)>>]

\* Glob::find on a prepared glob.
find(g, str) ==
    Upto(g.all,
         {e.value : e \in {e \in g.exacts : e.pat = str}}
           \cup {e.value : e \in {e \in g.prefixes : StartsWith(str, e.pat)}}
           \cup {e.value : e \in {e \in g.suffixes : EndsWith(str, e.pat)}}
           \cup {Nfa_match(g.nfa[i], str) : i \in DOMAIN g.nfa}
           \cup {p.value : p \in {p \in ToSet(g.patterns) : match(p.tokens, str)}}
           \cup {AhoCorasick_find(g.trie[i], str) : i \in DOMAIN g.trie})
-----------------------------------------------------------------------------
(* What a pattern means: the strings its tokens generate.                  *)

RECURSIVE Generates(_, _)
Generates(tokens, str) ==
    IF tokens = <<>> THEN str = <<>>
    ELSE LET tok == Head(tokens)
             rest(n) == Generates(Tail(tokens), From(str, n + 1))
         IN  CASE tok.kind = "STAR" -> \E n \in 0..Len(str) : rest(n)
               [] tok.kind = "STRING" -> StartsWith(str, tok.str) /\ rest(Len(tok.str))
               [] tok.kind = "QUESTION" -> str # <<>> /\ rest(1)
               [] tok.kind = "BRACKET" -> str # <<>> /\ Head(str) \in tok.chars /\ rest(1)

Means(pat, str) == Generates(compile(pat).tokens, str)
============================================================================
