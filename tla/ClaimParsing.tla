----------------------------- MODULE ClaimParsing -----------------------------
(***************************************************************************)
(* parse_claims of the delivery auditor (auditor.py) on every short text.  *)
(* A text is a sequence of symbols that the parser tells apart; the state  *)
(* is the text, which grows by one symbol at a time.                       *)
(*                                                                         *)
(* A part of the text is the interval from its first to its last position, *)
(* empty when it ends before it starts.                                    *)
(***************************************************************************)
EXTENDS FiniteSets, Integers, Sequences

CONSTANTS
  MaxClaims,  \* the parameter max_claims
  MaxLength   \* bound: the longest text

ASSUME ParsingAssumption == MaxClaims \in Nat \ {0} /\ MaxLength \in Nat

\* A letter, a bullet (-*•), a blank (space or tab), other whitespace that does not break the
\* line (no-break space, form feed, ...), a full stop (.!?) and a line break.
Characters == {"a", "-", "blank", "space", ".", "nl"}

VARIABLE text

ParsingInit == text = <<>>

Type == \E s \in Characters : Len(text) < MaxLength /\ text' = Append(text, s)

ParsingSpec == ParsingInit /\ [][Type]_text

-----------------------------------------------------------------------------

\* The character class [^\n.!?]
Body == {"a", "-", "blank", "space"}

\* What strip() removes from a match.
White == {"blank", "space"}

\* The longest parts of t that match [^\n.!?]+; a match can only start where one starts, for
\* what fails there fails behind it as well.
Runs(t) ==
  {r \in (DOMAIN t) \X (DOMAIN t) :
     /\ r[1] <= r[2] /\ \A k \in r[1]..r[2] : t[k] \in Body
     /\ r[1] > 1 => t[r[1] - 1] \notin Body
     /\ r[2] < Len(t) => t[r[2] + 1] \notin Body}

\* Mutant: only the end of the text closes a claim.
ClosedByEnd(t, r) == r[2] = Len(t)

\* (?:[.!?]+|$): a full stop, the end of the text, or the line break that ends it.
Closed(t, r) ==
  \/ r[2] = Len(t)
  \/ t[r[2] + 1] = "."
  \/ r[2] + 1 = Len(t) /\ t[Len(t)] = "nl"

\* The full stops that a match takes with it.
End(t, r) ==
  CHOOSE e \in r[2]..Len(t) :
    (\A k \in r[2] + 1..e : t[k] = ".") /\ (e < Len(t) => t[e + 1] # ".")

Matches(t) == {<<r[1], End(t, r)>> : r \in {r \in Runs(t) : Closed(t, r)}}

\* lstrip: the first position from i to j that holds none of the stripped symbols.
SkipLeft(t, i, j, stripped) ==
  CHOOSE k \in i..j + 1 : (\A l \in i..k - 1 : t[l] \in stripped) /\ (k <= j => t[k] \notin stripped)

SkipRight(t, i, j, stripped) ==
  CHOOSE k \in i - 1..j : (\A l \in k + 1..j : t[l] \in stripped) /\ (k >= i => t[k] \notin stripped)

\* raw.strip().lstrip("-*•").strip(), as a part of the text.
Cleaned(t, m) ==
  LET first == SkipLeft(t, m[1], m[2], White)
      last == SkipRight(t, first, m[2], White)
      unbulleted == SkipLeft(t, first, last, {"-"})
  IN <<SkipLeft(t, unbulleted, last, White), last>>

\* Mutant: the leading bullets are not counted.
LeadingBlanks(t, m) == SkipLeft(t, m[1], m[2], {"blank"})

\* match.start() + leading, where lstrip(" \t-*•") strips blanks and bullets in any order, and
\* stops at other whitespace.
Start(t, m) == SkipLeft(t, m[1], m[2], {"blank", "-"})

\* The matches that are not cleaned away, the first MaxClaims of them: what is kept as the
\* claim's text, and the span that is recorded for it.
Claims(t) ==
  LET kept == {m \in Matches(t) : Cleaned(t, m)[1] <= Cleaned(t, m)[2]}
      taken == {m \in kept : Cardinality({n \in kept : n[1] < m[1]}) < MaxClaims}
  IN {[part |-> Cleaned(t, m),
       span |-> <<Start(t, m), Start(t, m) + (Cleaned(t, m)[2] - Cleaned(t, m)[1])>>]
      : m \in taken}

-----------------------------------------------------------------------------
(* Properties                                                               *)

\* PRD.md 37: "retain original source spans".  The recorded span is where the claim stands.
SpansAreSource == \A c \in Claims(text) : c.span = c.part

\* Other whitespace stands before the claim in its match, maybe among blanks and bullets.
LedBySpace(c) ==
  \E k \in 1..c.part[1] - 1 : text[k] = "space" /\ \A l \in k..c.part[1] - 1 : text[l] \in Body

\* The recorded span is where the claim stands exactly if neither a bullet begins the claim's own
\* text nor whitespace other than a space or a tab leads it; only a bullet takes a span out of its
\* sentence, so that it may overlap another one.
SpansStandOrSlip ==
  \A c \in Claims(text) :
    /\ c.span = c.part <=> text[c.part[1]] # "-" /\ ~LedBySpace(c)
    /\ text[c.part[1]] # "-" =>
         \A d \in Claims(text) :
           d # c /\ text[d.part[1]] # "-" => d.span[2] < c.span[1] \/ c.span[2] < d.span[1]

\* The positions with a letter in them.
Letters == {k \in DOMAIN text : text[k] = "a"}

Covered(k) == \E c \in Claims(text) : k \in c.part[1]..c.part[2]

\* No letter of a sentence that is closed by a full stop, or of the last line, is lost, while
\* max_claims is not reached.
SentencesAreClaims ==
  \A k \in Letters :
    /\ Cardinality(Claims(text)) < MaxClaims
    /\ \E stop \in k + 1..Len(text) + 1 :
         /\ \A l \in k..stop - 1 : text[l] \in Body
         /\ stop <= Len(text) => text[stop] = "."
    => Covered(k)

Text(c) == SubSeq(text, c.part[1], c.part[2])

\* assess_delivery_report parses the stored text of each claim again and assesses the first
\* result: for a text that begins neither with a bullet nor with a full stop, that is the claim
\* itself, whole.
PlainClaimsParseAgain ==
  \A c \in Claims(text) :
    text[c.part[1]] \notin {"-", "."} =>
      \E d \in Claims(Text(c)) :
        /\ d.part = <<1, Len(Text(c))>>
        /\ \A e \in Claims(Text(c)) : e = d

\* Which claims stand at their span, and which are found again when they are assessed.
ClaimsKeepTheirSource == SpansStandOrSlip /\ PlainClaimsParseAgain

\* The same for every claim: the second parse finds something to assess.
ClaimsParseAgain ==
  \A c \in Claims(text) : Claims(Text(c)) # {}
=============================================================================
