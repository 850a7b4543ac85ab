------------------------------- MODULE Codecs -------------------------------
(***************************************************************************)
(* The two texts that cross the pipe between the runtime and the FeltDB    *)
(* bridge: values in base64, and lists of names as a JSON array.  The      *)
(* runtime encodes and decodes base64 by hand, and parses by hand what     *)
(* JSON.stringify wrote.                                                   *)
(*                                                                         *)
(* A base64 character is its value (0..63) or Pad; bytes are 0..255; names *)
(* and JSON texts are sequences of characters, each a string of length one *)
(* or, for a control character, its name.                                  *)
(***************************************************************************)
EXTENDS Naturals, SequencesExt, StoragePaths

Pad == 64

\* Mutant: the last group is padded as if it were whole.
Base64EncodeUnpadded(bytes) ==
    LET B(i) == IF i <= Len(bytes) THEN bytes[i] ELSE 0
        Char(k) ==
            LET i == 3 * (k \div 4) IN
            CASE k % 4 = 0 -> B(i + 1) \div 4
              [] k % 4 = 1 -> (B(i + 1) % 4) * 16 + B(i + 2) \div 16
              [] k % 4 = 2 -> (B(i + 2) % 16) * 4 + B(i + 3) \div 64
              [] k % 4 = 3 -> IF i + 3 <= Len(bytes) THEN B(i + 3) % 64 ELSE Pad
    IN  [k \in 1..(4 * ((Len(bytes) + 2) \div 3)) |-> Char(k - 1)]

\* base64_encode: groups of three bytes, missing ones count as 0.  Character k.
Base64Character(bytes, k) ==
    LET i == 3 * (k \div 4)
        B(m) == IF i + m <= Len(bytes) THEN bytes[i + m] ELSE 0
    IN  CASE k % 4 = 0 -> B(1) \div 4
          [] k % 4 = 1 -> (B(1) % 4) * 16 + B(2) \div 16
          [] k % 4 = 2 -> IF i + 2 <= Len(bytes) THEN (B(2) % 16) * 4 + B(3) \div 64 ELSE Pad
          [] k % 4 = 3 -> IF i + 3 <= Len(bytes) THEN B(3) % 64 ELSE Pad
Base64Encode(bytes) ==
    [k \in 1..(4 * ((Len(bytes) + 2) \div 3)) |-> Base64Character(bytes, k - 1)]

\* base64_decode: padding is looked for in the last two places of every group,
\* and counts as 0 in the byte it shares.
DecodeGroup(a, b, c, d) ==
    LET value == IF c = Pad THEN 0 ELSE c IN
    <<(a * 4 + b \div 16) % 256>>
      \o (IF c = Pad THEN <<>> ELSE <<(b % 16) * 16 + value \div 4>>)
      \o (IF d = Pad THEN <<>> ELSE <<(value % 4) * 64 + d>>)
Base64Decode(text) ==
    IF \/ Len(text) % 4 # 0
       \/ \E k \in 1..Len(text) : (k - 1) % 4 < 2 /\ text[k] = Pad
      THEN Refused
      ELSE FlattenSeq([g \in 1..(Len(text) \div 4) |->
               DecodeGroup(text[4*g - 3], text[4*g - 2], text[4*g - 1], text[4*g])])

-----------------------------------------------------------------------------

Quote     == "\""
Backslash == "\\"
Comma     == ","

\* The control characters, U+0000 first.
ControlNames ==
    <<"NUL", "SOH", "STX", "ETX", "EOT", "ENQ", "ACK", "BEL", "BS", "HT", "LF", "VT", "FF", "CR",
      "SO", "SI", "DLE", "DC1", "DC2", "DC3", "DC4", "NAK", "SYN", "ETB", "CAN", "EM", "SUB",
      "ESC", "FS", "GS", "RS", "US">>
HexDigits == <<"0", "1", "2", "3", "4", "5", "6", "7", "8", "9", "a", "b", "c", "d", "e", "f">>

Controls      == Range(ControlNames)
EscapeLetters == {"t", "n", "r", "u"} \cup Range(HexDigits)

\* JSON.stringify (external): what follows the Backslash for a control character.
EscapeOf(c) ==
    CASE c = "BS" -> <<"b">>
      [] c = "HT" -> <<"t">>
      [] c = "LF" -> <<"n">>
      [] c = "FF" -> <<"f">>
      [] c = "CR" -> <<"r">>
      [] OTHER ->
           LET u == CHOOSE u \in 1..32 : ControlNames[u] = c
           IN  <<"u", "0", "0", HexDigits[((u - 1) \div 16) + 1], HexDigits[((u - 1) % 16) + 1]>>

\* JSON.stringify (external): one character of a name.
Escaped(c) ==
    CASE c \in {Quote, Backslash} -> <<Backslash, c>>
      [] c \in Controls           -> <<Backslash>> \o EscapeOf(c)
      [] OTHER                    -> <<c>>

Printable(name) == \A c \in Controls : ~Contains(name, c)

EscapedAll(name) == FlattenSeq([i \in 1..Len(name) |-> Escaped(name[i])])
Quoted(name)     == <<Quote>> \o EscapedAll(name) \o <<Quote>>

\* What the bridge prints for a list of names.
Listed(names) ==
    FlattenSeq([i \in 1..Len(names) |->
                   (IF i = 1 THEN <<>> ELSE <<Comma>>) \o Quoted(names[i])])
JSONArray(names) == <<"[">> \o Listed(names) \o <<"]">>

\* replace: every "<Backslash><c>", from left to right, becomes c.  r.held: the last
\* character read was a Backslash, and is not in r.out yet.
Released(r) == IF r.held THEN Append(r.out, Backslash) ELSE r.out
UnescapeNext(r, x, c) ==
    IF r.held /\ x = c   THEN [out |-> Append(r.out, c), held |-> FALSE]
    ELSE IF x = Backslash THEN [out |-> Released(r), held |-> TRUE]
    ELSE [out |-> Append(Released(r), x), held |-> FALSE]
UnescapeAll(text, c) ==
    LET Read[n \in 0..Len(text)] ==
            IF n = 0 THEN [out |-> <<>>, held |-> FALSE]
            ELSE UnescapeNext(Read[n - 1], text[n], c)
    IN  Read[Len(text)]
Unescape(text, c) == Released(UnescapeAll(text, c))

\* One item of the array, between two commas.
ParseItem(item) ==
    IF Len(item) < 2 \/ item[1] # Quote \/ item[Len(item)] # Quote THEN Refused
    ELSE Unescape(Unescape(SubSeq(item, 2, Len(item) - 1), Quote), Backslash)

\* Mutant: an item that does not parse is skipped.
ParseJSONStringArraySkips(text) ==
    IF text = <<"[", "]">> THEN <<>>
    ELSE LET items == Split(SubSeq(text, 2, Len(text) - 1), Comma)
         IN  SelectSeq([i \in 1..Len(items) |-> ParseItem(items[i])], LAMBDA n : n # Refused)

\* parse_json_string_array: the text is split at every comma.
ParseJSONStringArray(text) ==
    IF text = <<"[", "]">> THEN <<>>
    ELSE LET items == Split(SubSeq(text, 2, Len(text) - 1), Comma)
             names == [i \in 1..Len(items) |-> ParseItem(items[i])]
         IN  IF \E i \in 1..Len(names) : names[i] = Refused THEN Refused ELSE names
=============================================================================
