----------------------------- MODULE TerminalInput -----------------------------
(***************************************************************************)
(* The terminal's bytes and what becomes of them: read_stdin keeps back    *)
(* the bytes of an unfinished character, the VT parser finds the           *)
(* sequences in each read, and the input parser turns them into text,      *)
(* keys, pastes and mouse events.  The bytes of one gesture may arrive in  *)
(* any pieces, and every parser keeps its place between two reads.         *)
(*                                                                         *)
(* At the start the terminal answers the questions of setup_terminal,      *)
(* which reads with the VT parser alone.                                   *)
(***************************************************************************)
EXTENDS Naturals, Sequences, FiniteSets

CONSTANTS
  Gestures,   \* what the user does: the bytes the terminal sends, and what they mean
  Replies,    \* the answers of the terminal, in bytes
  Colors,     \* indexed_colors.len()
  Slots,      \* Csi.params.len()
  MaxGestures,
  Disturbed   \* whether the window changes size while a sequence is under way

VARIABLES
  phase,      \* "setup" or "running", or "crashed"
  sent,       \* the gestures made
  transit,    \* bytes sent and not read
  held,       \* STATE.utf8_buf
  vt,         \* vt::Parser
  keys,       \* input::Parser
  got,        \* the inputs handed to the interface
  theme       \* the locals of setup_terminal

vars == <<phase, sent, transit, held, vt, keys, got, theme>>

ESC == 27
BEL == 7
Digits == 48 .. 57
Limit16(n) == IF n > 65535 THEN 65535 ELSE n
Bit(n, k) == (n \div 2^k) % 2 = 1

(***************************************************************************)
(* Characters.  A read ends where a character ends; what follows is held.  *)
(***************************************************************************)
Width(b) ==
  CASE b < 128 -> 1 [] b \in 192 .. 223 -> 2 [] b \in 224 .. 239 -> 3
    [] b \in 240 .. 247 -> 4 [] OTHER -> 0

\* Where the last character of a read starts, within its last four bytes.
LastStart(b) ==
  CHOOSE i \in 1 .. Len(b) :
    /\ \A j \in i + 1 .. Len(b) : b[j] \in 128 .. 191
    /\ i = (IF Len(b) > 3 THEN Len(b) - 3 ELSE 0) + 1 \/ b[i] \notin 128 .. 191

Whole(b) ==
  IF b = <<>> THEN 0
  ELSE LET i == LastStart(b) IN IF i + Width(b[i]) > Len(b) + 1 THEN i - 1 ELSE Len(b)

\* next_char: the code of the character at i.
CodeAt(c, i) ==
  CASE Width(c[i]) = 2 -> ((c[i] % 32) * 64) + (c[i + 1] % 64)
    [] Width(c[i]) = 3 -> ((c[i] % 16) * 4096) + ((c[i + 1] % 64) * 64) + (c[i + 2] % 64)
    [] Width(c[i]) = 4 -> ((c[i] % 8) * 262144) + ((c[i + 1] % 64) * 4096)
                            + ((c[i + 2] % 64) * 64) + (c[i + 3] % 64)
    [] OTHER -> c[i]

(***************************************************************************)
(* The VT parser.  NextToken(p, c) is Stream::next on the read c: the      *)
(* token, with the parser behind it.  off counts the bytes consumed.       *)
(***************************************************************************)
Parser == [state |-> "ground", params |-> [i \in 1 .. Slots |-> 0], count |-> 0,
           private |-> 0, off |-> 0]
At(p, state, off) == [p EXCEPT !.state = state, !.off = off]
Token(p, kind, data) == [vt |-> p, kind |-> kind, data |-> data, partial |-> FALSE]
Part(p, kind, data) == [Token(p, kind, data) EXCEPT !.partial = TRUE]

\* Mutant: the parameters of the sequence before stay.
StartCsiKeepingParams(p) == [At(p, "csi", p.off + 1) EXCEPT !.count = 0, !.private = 0]

\* ESC [ erases the last sequence, parameter by parameter from its count down.
StartCsi(p) ==
  [At(p, "csi", p.off + 1) EXCEPT
     !.params = [i \in 1 .. Slots |-> IF i <= p.count THEN 0 ELSE p.params[i]],
     !.count = 0, !.private = 0]

IsTextByte(b) == b >= 32 /\ b # 127
EndOfText(c, i) ==
  CHOOSE j \in i .. Len(c) :
    (\A k \in i + 1 .. j : IsTextByte(c[k])) /\ (j = Len(c) \/ ~IsTextByte(c[j + 1]))

InCsi(p, b) ==
  CASE b \in Digits ->
         IF p.count < Slots
         THEN [p EXCEPT !.off = @ + 1,
                        !.params[p.count + 1] = Limit16(@ * 10 + b - 48)]
         ELSE [p EXCEPT !.off = @ + 1]
    [] b = 59 -> [p EXCEPT !.off = @ + 1, !.count = @ + 1]
    [] b \in 60 .. 63 -> [p EXCEPT !.off = @ + 1, !.private = b]
    [] b \in 64 .. 126 ->
         [At(p, "ground", p.off + 1) EXCEPT
            !.count = @ + (IF @ # 0 \/ p.params[1] # 0 THEN 1 ELSE 0)]
    [] OTHER -> [p EXCEPT !.off = @ + 1]

\* Where an OSC or DCS string may end: BEL, ESC \, or an ESC the read ends with.
StringEnds(c, i) ==
  {j \in i .. Len(c) : \/ c[j] = BEL
                       \/ c[j] = ESC /\ (IF j = Len(c) THEN TRUE ELSE c[j + 1] = 92)}

StringToken(p, c) ==
  LET ends == StringEnds(c, p.off + 1)
      first == CHOOSE j \in ends : \A k \in ends : j <= k
      Data(to) == SubSeq(c, p.off + 1, to)
  IN IF ends = {} THEN Part([p EXCEPT !.off = Len(c)], p.state, Data(Len(c)))
     ELSE IF c[first] = BEL
          THEN Token(At(p, "ground", first), p.state, Data(first - 1))
     ELSE IF first < Len(c)
          THEN Token(At(p, "ground", first + 1), p.state, Data(first - 1))
     \* The state has moved on before it names the token: always a DCS.
     ELSE Part(At(p, IF p.state = "osc" THEN "oscEsc" ELSE "dcsEsc", first), "dcs",
               Data(first - 1))

StringOf(state) == IF state = "oscEsc" THEN "osc" ELSE "dcs"

RECURSIVE NextToken(_, _)
NextToken(p, c) ==
  IF c = <<>> /\ p.state = "esc" THEN Token(At(p, "ground", 0), "esc", 0)
  ELSE IF p.off >= Len(c) THEN Token(p, "none", 0)
  ELSE
    LET b == c[p.off + 1]
        width == IF Width(b) = 0 THEN 1 ELSE Width(b)
    IN CASE p.state = "ground" /\ b = ESC -> NextToken(At(p, "esc", p.off + 1), c)
         [] p.state = "ground" /\ IsTextByte(b) ->
              LET to == EndOfText(c, p.off + 1)
              IN Token([p EXCEPT !.off = to], "text", SubSeq(c, p.off + 1, to))
         [] p.state = "ground" /\ b # ESC /\ ~IsTextByte(b) ->
              Token([p EXCEPT !.off = @ + 1], "ctrl", b)
         [] p.state = "esc" /\ b = 91 ->
              IF p.count > Slots THEN Token(p, "crash", 0) ELSE NextToken(StartCsi(p), c)
         [] p.state = "esc" /\ b = 93 -> NextToken(At(p, "osc", p.off + 1), c)
         [] p.state = "esc" /\ b = 79 -> NextToken(At(p, "ss3", p.off + 1), c)
         [] p.state = "esc" /\ b = 80 -> NextToken(At(p, "dcs", p.off + 1), c)
         [] p.state = "esc" /\ b \notin {79, 80, 91, 93} ->
              Token(At(p, "ground", p.off + width), "esc", CodeAt(c, p.off + 1))
         [] p.state = "ss3" ->
              Token(At(p, "ground", p.off + width), "ss3", CodeAt(c, p.off + 1))
         [] p.state = "csi" ->
              LET n == InCsi(p, b)
              IN IF n.state = "ground" THEN Token(n, "csi", b) ELSE NextToken(n, c)
         [] p.state \in {"osc", "dcs"} -> StringToken(p, c)
         [] p.state \in {"oscEsc", "dcsEsc"} ->
              IF b = 92 THEN Token(At(p, "ground", p.off + 1), StringOf(p.state), <<>>)
              ELSE Part([p EXCEPT !.state = StringOf(p.state)], StringOf(p.state), <<ESC>>)

(***************************************************************************)
(* The input parser: the inputs of one read.                               *)
(***************************************************************************)
Reader == [paste |-> FALSE, buf |-> <<>>, want |-> FALSE, mouse |-> <<>>]

TextInput(data) == [kind |-> "text", data |-> data]
Key(key, mods) == [kind |-> "key", key |-> key, mods |-> mods]
Paste(data) == [kind |-> "paste", data |-> data]

Modifiers(n) ==
  LET p1 == IF n = 0 THEN 0 ELSE n - 1
  IN (IF Bit(p1, 0) THEN {"shift"} ELSE {}) \cup (IF Bit(p1, 1) THEN {"alt"} ELSE {})
       \cup (IF Bit(p1, 2) THEN {"ctrl"} ELSE {})

\* The virtual key of an ASCII character, and of Backspace and the closing bracket.
VirtualKey(code) ==
  CASE code \in 97 .. 122 -> code - 32
    [] code = 127 -> 8
    [] code = 93 -> 221
    [] OTHER -> code

\* A code with its modifiers, from an enhanced keyboard protocol; none if it is no key.
ModifiedCodepoint(code, mods) ==
  IF mods \subseteq {"shift"} /\ code \in 32 .. 126 THEN <<Key(2097152 + code, {})>>
  ELSE IF code \in {9, 13, 27, 127} \cup 32 .. 126
       THEN <<Key(VirtualKey(code), mods)>>
  ELSE <<>>

\* The keys behind the letters A to H, and behind the numbers before a tilde.
Keypad == [b \in {65, 66, 67, 68, 70, 72} |->
             CASE b = 65 -> 38 [] b = 66 -> 40 [] b = 67 -> 39 [] b = 68 -> 37
               [] b = 70 -> 35 [] b = 72 -> 36]
Tilde == [n \in {1, 2, 3, 4, 5, 6, 15} \cup 17 .. 21 \cup 23 .. 26 \cup {28, 29} \cup 31 .. 34 |->
            CASE n = 1 -> 36 [] n = 2 -> 45 [] n = 3 -> 46 [] n = 4 -> 35 [] n = 5 -> 33
              [] n = 6 -> 34 [] n = 15 -> 116 [] n \in 17 .. 21 -> n + 100
              [] n \in 23 .. 26 -> n + 99 [] n \in {28, 29} -> n + 98
              [] n \in 31 .. 34 -> n + 97]

CtrlKey(b) ==
  CASE b = 0 -> <<Key(32, {"ctrl"})>>
    [] b \in {9, 13} -> <<Key(b, {})>>
    [] b = 10 -> <<Key(13, {"ctrl"})>>
    [] b \in (1 .. 26) \ {9, 10, 13} -> <<Key(b + 64, {"ctrl"})>>
    [] b = 127 -> <<Key(VirtualKey(b), {})>>
    [] b = 29 -> <<Key(VirtualKey(93), {"ctrl"})>>
    [] OTHER -> <<>>

EscKey(c) ==
  CASE c = 0 -> <<Key(27, {})>>
    [] c = 10 -> <<Key(13, {"ctrl", "alt"})>>
    [] c \in (1 .. 26) \ {10} -> <<Key(c + 64, {"ctrl", "alt"})>>
    [] c = 29 -> <<Key(VirtualKey(93), {"ctrl", "alt"})>>
    [] c \in 32 .. 126 ->
         <<IF Bit(c, 5) THEN Key(c - 32, {"alt"}) ELSE Key(c, {"alt", "shift"})>>
    [] OTHER -> <<>>

Ss3Key(c) ==
  CASE c \in DOMAIN Keypad -> <<Key(Keypad[c], {})>>
    [] c \in 80 .. 83 -> <<Key(c + 32, {})>>
    [] OTHER -> <<>>

\* parse_xterm_mouse: button, position, wheel and modifiers of a report.
Mouse(params, release) ==
  IF Len(params) < 3 THEN <<>>
  ELSE
    LET btn == params[1]
        kind == (btn - (btn % 32)) + (btn % 4)
        plain == IF Bit(kind, 5) THEN kind - 32 ELSE kind
        wheel == ~release /\ kind \in 64 .. 67
        button == ~release /\ ~wheel /\ plain < 3
        sideways == Bit(btn, 1) \/ Bit(btn, 2)
        step == IF Bit(btn, 0) THEN "on" ELSE "back"
    IN <<[kind |-> "mouse",
          state |-> CASE wheel -> "scroll" [] button -> <<"left", "middle", "right">>[plain + 1]
                      [] OTHER -> "none",
          at |-> <<params[2] - 1, params[3] - 1>>,
          scroll |-> IF wheel THEN <<IF sideways THEN "x" ELSE "y", step>> ELSE <<>>,
          drag |-> button /\ Bit(kind, 5),
          mods |-> (IF Bit(btn, 2) THEN {"shift"} ELSE {})
                     \cup (IF Bit(btn, 3) THEN {"alt"} ELSE {})
                     \cup (IF Bit(btn, 4) THEN {"ctrl"} ELSE {})]>>

\* The numbers of an X10 report are shifted characters.
X10(m) ==
  IF m[1] \in 32 .. 65567 /\ m[2] \in 33 .. 65567 /\ m[3] \in 33 .. 65567
  THEN Mouse([i \in 1 .. 3 |-> m[i] - 32], FALSE)
  ELSE <<>>

CsiKey(p, final) ==
  LET mods == Modifiers(p.params[2])
  IN CASE final = 117 /\ p.private = 0 -> ModifiedCodepoint(p.params[1], mods)
       [] final \in DOMAIN Keypad -> <<Key(Keypad[final], mods)>>
       [] final = 90 -> <<Key(9, {"shift"})>>
       [] final = 126 ->
            IF p.params[1] = 27 /\ p.count >= 3 THEN ModifiedCodepoint(p.params[3], mods)
            ELSE IF p.params[1] \in DOMAIN Tilde THEN <<Key(Tilde[p.params[1]], mods)>>
            ELSE <<>>
       [] final \in {77, 109} /\ p.private = 60 ->
            Mouse(SubSeq(p.params, 1, IF p.count < Slots THEN p.count ELSE Slots), final = 109)
       [] OTHER -> <<>>

TokenKey(t) ==
  CASE t.kind = "text" -> <<TextInput(t.data)>>
    [] t.kind = "ctrl" -> CtrlKey(t.data)
    [] t.kind = "esc" -> EscKey(t.data)
    [] t.kind = "ss3" -> Ss3Key(t.data)
    [] t.kind = "csi" -> CsiKey(t.vt, t.data)
    [] OTHER -> <<>>

\* handle_bracketed_paste: everything up to the end of the last token before the
\* terminator, or before the end of the read.
RECURSIVE PasteEnd(_, _, _)
PasteEnd(p, c, end) ==
  LET seen(t) ==
        CASE t.kind \in {"none", "crash"} -> [token |-> t, end |-> end, closed |-> FALSE]
          [] t.kind = "csi" /\ t.data = 126 /\ t.vt.params[1] = 201 ->
               [token |-> t, end |-> end, closed |-> TRUE]
          [] OTHER -> PasteEnd(t.vt, c, t.vt.off)
  IN seen(NextToken(p, c))

\* parse_x10_mouse_coordinates takes characters until it has three.
RECURSIVE TakeThree(_, _, _)
TakeThree(p, c, m) ==
  IF Len(m) = 3 \/ p.off >= Len(c) THEN [vt |-> p, mouse |-> m]
  ELSE TakeThree([p EXCEPT !.off = @ + Width(c[p.off + 1])], c,
                 Append(m, CodeAt(c, p.off + 1)))

\* Iterator::next until it has none: the inputs of the read c, and both parsers after it.
RECURSIVE Inputs(_, _, _)
Inputs(p, k, c) ==
  LET then(first, rest) == [rest EXCEPT !.out = first \o @]
      pasted(e, data) ==
        IF e.closed THEN then(<<Paste(data)>>, Inputs(e.token.vt, Reader, c))
        ELSE [vt |-> e.token.vt, keys |-> [k EXCEPT !.buf = data], out |-> <<>>,
              crash |-> e.token.kind = "crash"]
      paste(e) == pasted(e, k.buf \o SubSeq(c, p.off + 1, e.end))
      mouse(t) ==
        IF Len(t.mouse) = 3 THEN then(X10(t.mouse), Inputs(t.vt, Reader, c))
        ELSE [vt |-> t.vt, keys |-> [k EXCEPT !.mouse = t.mouse], out |-> <<>>, crash |-> FALSE]
      token(t) ==
        IF t.kind \in {"none", "crash"}
        THEN [vt |-> t.vt, keys |-> k, out |-> <<>>, crash |-> t.kind = "crash"]
        ELSE then(TokenKey(t),
               Inputs(t.vt,
                 [k EXCEPT !.paste = t.kind = "csi" /\ t.data = 126 /\ t.vt.params[1] = 200,
                           !.want = /\ t.kind = "csi" /\ t.data = 77
                                    /\ t.vt.count = 0 /\ t.vt.private # 60],
                 c))
  IN CASE k.paste -> paste(PasteEnd(p, c, p.off))
       [] k.want /\ ~k.paste -> mouse(TakeThree(p, c, k.mouse))
       [] OTHER -> token(NextToken(p, c))

(***************************************************************************)
(* setup_terminal: the tokens of one read, to the end of the read even     *)
(* when the last answer is among them.                                     *)
(***************************************************************************)
Asking == [done |-> FALSE, buffer |-> <<>>, colors |-> {}, count |-> 0, wide |-> FALSE,
           themed |-> FALSE]

\* A complete answer: <<i>> reports color i; anything else is not about a color.
Answer(l, data) ==
  IF Len(data) = 1 /\ data[1] \in 97 .. 96 + Colors
  THEN [l EXCEPT !.colors = @ \cup {data[1] - 96}, !.count = @ + 1, !.buffer = <<>>]
  ELSE [l EXCEPT !.buffer = IF @ = <<>> THEN <<>> ELSE data]

Heard(l, t) ==
  CASE t.kind = "csi" /\ t.data = 99 -> [l EXCEPT !.done = TRUE]
    [] t.kind = "csi" /\ t.data = 82 -> [l EXCEPT !.wide = t.vt.params[2] = 3]
    [] t.kind = "osc" /\ t.partial -> [l EXCEPT !.buffer = @ \o t.data]
    [] t.kind = "osc" /\ ~t.partial -> Answer(l, l.buffer \o t.data)
    [] OTHER -> l

RECURSIVE SetUp(_, _, _)
SetUp(p, l, c) ==
  LET hear(t) == IF t.kind = "none" THEN [vt |-> t.vt, theme |-> l]
                 ELSE SetUp(t.vt, Heard(l, t), c)
  IN hear(NextToken(p, c))

(***************************************************************************)
(* The loop.                                                               *)
(***************************************************************************)
Init ==
  /\ phase = "setup" /\ sent = <<>> /\ transit = Replies /\ held = <<>> /\ got = <<>>
  /\ vt = Parser /\ keys = Reader /\ theme = Asking

\* External: the terminal sends the bytes of a gesture.  Nobody presses a key within 100 ms
\* of a lone Escape.
Make(g) ==
  /\ phase = "running" /\ Len(sent) < MaxGestures
  /\ sent # <<>> /\ sent[Len(sent)].bytes = <<ESC>> => transit = <<>> /\ vt.state = "ground"
  /\ sent' = Append(sent, g)
  /\ transit' = transit \o g.bytes
  /\ UNCHANGED <<phase, held, vt, keys, got, theme>>

\* Parsing what a read brought.
Take(c) ==
  \/ /\ phase = "setup"
     /\ \E r \in {SetUp(vt, theme, c)} :
           /\ vt' = [r.vt EXCEPT !.off = 0]
           /\ theme' = [r.theme EXCEPT !.themed = r.theme.done /\ r.theme.count = Colors]
           /\ phase' = IF r.theme.done THEN "running" ELSE "setup"
     /\ UNCHANGED <<keys, got>>
  \/ /\ phase = "running"
     /\ \E r \in {Inputs(vt, keys, c)} :
           /\ vt' = [r.vt EXCEPT !.off = 0]
           /\ keys' = r.keys
           /\ got' = got \o r.out
           /\ phase' = IF r.crash THEN "crashed" ELSE "running"
     /\ UNCHANGED theme

\* read_stdin with n bytes there: what it held comes first, an unfinished character stays.
ReadStdin(n) ==
  \E b \in {held \o SubSeq(transit, 1, n)} : \E whole \in {Whole(b)} :
    /\ transit' = SubSeq(transit, n + 1, Len(transit))
    /\ held' = SubSeq(b, whole + 1, Len(b))
    /\ Take(SubSeq(b, 1, whole))
    /\ UNCHANGED sent

\* read_stdin without bytes: after the timeout, or sooner because the window changed.  Only
\* a parser that waits behind an ESC makes something of it.
ReadNothing ==
  /\ vt.state = "esc"
  /\ transit = <<>> \/ Disturbed
  /\ Take(<<>>)
  /\ UNCHANGED <<sent, transit, held>>

Next ==
  \/ \E g \in Gestures : Make(g)
  \/ \E n \in 1 .. Len(transit) : ReadStdin(n)
  \/ ReadNothing

Spec == Init /\ [][Next]_vars

-----------------------------------------------------------------------------
Joined(inputs) ==
  LET Put(i, out) ==
        IF i.kind = "text" /\ out # <<>> /\ out[Len(out)].kind = "text"
        THEN [out EXCEPT ![Len(out)].data = @ \o i.data]
        ELSE Append(out, i)
      f[n \in 0 .. Len(inputs)] == IF n = 0 THEN <<>> ELSE Put(inputs[n], f[n - 1])
  IN f[Len(inputs)]

Meaning ==
  LET f[n \in 0 .. Len(sent)] == IF n = 0 THEN <<>> ELSE f[n - 1] \o sent[n].means
  IN f[Len(sent)]

\* All that was sent has been read and no parser waits for more.
AllRead == transit = <<>> /\ held = <<>> /\ vt.state = "ground"

\* Whatever pieces the bytes arrive in, the interface gets what the user did, in order and
\* complete: text, keys, pastes and mouse reports; a sequence cut by the end of a read is
\* neither typed into the document nor lost, and half a character is not replaced.
GesturesArrive == phase = "running" /\ AllRead => Joined(got) = Joined(Meaning)

\* Setting up the terminal hears every answer, whatever pieces it arrives in, so that the
\* colors of the terminal are used when it reported all of them.
AnswersAreHeard ==
  phase = "running" => theme.colors = 1 .. Colors /\ theme.themed /\ theme.wide

=============================================================================
