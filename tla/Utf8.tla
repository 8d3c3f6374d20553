---------------------------------- MODULE Utf8 ----------------------------------
(***************************************************************************)
(* Utf8Chars: characters out of bytes that need not be UTF-8.  Everything  *)
(* that looks at text (measurement, search, the terminal) reads it through *)
(* this, so that all agree on where a character ends in damaged text.      *)
(***************************************************************************)
EXTENDS Naturals, Sequences

Fffd == 65533
Tails == 128 .. 191

\* The second bytes each lead allows; none for a byte that is no lead.
Seconds(lead) ==
  CASE lead \in 194 .. 223 -> Tails
    [] lead = 224 -> 160 .. 191
    [] lead = 237 -> 128 .. 159
    [] lead \in 225 .. 239 \ {237} -> Tails
    [] lead = 240 -> 144 .. 191
    [] lead \in 241 .. 243 -> Tails
    [] lead = 244 -> 128 .. 143
    [] OTHER -> {}

\* How many bytes a lead announces.
Announced(lead) == CASE lead < 224 -> 2 [] lead \in 224 .. 239 -> 3 [] OTHER -> 4

\* The bits a lead carries, and the character of a lead with its tail.
LeadBits(lead) ==
  CASE lead < 224 -> lead % 32 [] lead \in 224 .. 239 -> lead % 16 [] OTHER -> lead % 8

\* Utf8Chars::next at byte i: the character, and where the next one starts.  A byte that does
\* not fit is left for the next character; what came before it is one U+FFFD.
Decode(s, i) ==
  LET lead == s[i]
      n == Announced(lead)
      Fits(k) == i + k <= Len(s) /\ s[i + k] \in IF k = 1 THEN Seconds(lead) ELSE Tails
      cp[k \in 0 .. n - 1] == IF k = 0 THEN LeadBits(lead)
                              ELSE cp[k - 1] * 64 + (s[i + k] % 64)
      bad == {k \in 1 .. n - 1 : ~Fits(k)}
  IN IF lead < 128 THEN [cp |-> lead, next |-> i + 1]
     ELSE IF bad = {} THEN [cp |-> cp[n - 1], next |-> i + n]
     ELSE [cp |-> Fffd, next |-> i + (CHOOSE k \in bad : \A j \in bad : k <= j)]

\* All characters from byte i on, each with where it starts.
Chars(s) ==
  LET f[i \in 1 .. Len(s) + 1] ==
        IF i > Len(s) THEN <<>>
        ELSE LET c == Decode(s, i) IN <<[cp |-> c.cp, at |-> i]>> \o f[c.next]
  IN f[1]

\* utf8_decode_last: back over at most three tails to a lead, and forward again.
DecodeLast(s) ==
  LET n == Len(s)
      starts == {i \in 1 .. n : (\A j \in i + 1 .. n : s[j] \in Tails) /\ s[i] \notin Tails}
      start == CHOOSE i \in starts : TRUE
      limit == IF n > 4 THEN n - 4 ELSE 0
  IN IF s[n] < 128 THEN s[n]
     ELSE IF starts = {} \/ start <= limit THEN Fffd
     ELSE LET c == Decode(s, start) IN IF c.next = n + 1 THEN c.cp ELSE Fffd

-----------------------------------------------------------------------------
(***************************************************************************)
(* The definition of well-formed text: the shortest encoding of every      *)
(* character that is no surrogate.                                         *)
(***************************************************************************)
Encoded(cp) ==
  CASE cp < 128 -> <<cp>>
    [] cp \in 128 .. 2047 -> <<192 + (cp \div 64), 128 + (cp % 64)>>
    [] cp \in 2048 .. 65535 ->
         <<224 + (cp \div 4096), 128 + ((cp \div 64) % 64), 128 + (cp % 64)>>
    [] OTHER -> <<240 + (cp \div 262144), 128 + ((cp \div 4096) % 64),
                  128 + ((cp \div 64) % 64), 128 + (cp % 64)>>

IsScalar(cp) == cp \in 0 .. 1114111 /\ cp \notin 55296 .. 57343

\* A character that decodes without replacement is encoded as it stands and is a character;
\* a replacement stands for bytes no well-formed character begins with; nothing is skipped.
DecodesRight(s) ==
  LET Value(b) == CASE Len(b) = 1 -> b[1]
                    [] Len(b) = 2 -> ((b[1] % 32) * 64) + (b[2] % 64)
                    [] Len(b) = 3 -> ((b[1] % 16) * 4096) + ((b[2] % 64) * 64) + (b[3] % 64)
                    [] OTHER -> ((b[1] % 8) * 262144) + ((b[2] % 64) * 4096)
                                  + ((b[3] % 64) * 64) + (b[4] % 64)
      WellFormed(b) == \E v \in {Value(b)} : IsScalar(v) /\ b = Encoded(v)
      Right(c, bytes) ==
        IF c.cp # Fffd THEN IsScalar(c.cp) /\ bytes = Encoded(c.cp)
        ELSE \/ bytes = Encoded(Fffd)
             \/ \A n \in 1 .. 4 :
                  c.at + n - 1 <= Len(s) => ~WellFormed(SubSeq(s, c.at, c.at + n - 1))
      All(chars) ==
        \A i \in 1 .. Len(chars) :
          Right(chars[i],
                SubSeq(s, chars[i].at,
                       IF i = Len(chars) THEN Len(s) ELSE chars[i + 1].at - 1))
  IN All(Chars(s))

\* The last character is the same read from either end.
LastAgrees(s) ==
  LET Ends(chars, cp) == chars[Len(chars)].cp = cp
  IN s # <<>> => Ends(Chars(s), DecodeLast(s))
=================================================================================
