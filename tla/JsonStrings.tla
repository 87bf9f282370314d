----------------------------- MODULE JsonStrings -----------------------------
(***************************************************************************)
(* pqroute.rs: encode_string_ascii and push_u_escape, the string literals  *)
(* of canonical.  A string is a sequence of code points and the output a   *)
(* sequence of bytes.                                                      *)
(***************************************************************************)
EXTENDS Integers, SequencesExt

Quote     == 34
Backslash == 92

\* The digits of HEX.
hex_digit(n) == IF n < 10 THEN 48 + n ELSE 87 + n

nibble(code_unit, i) == (code_unit \div 16 ^ (4 - i)) % 16

push_u_escape(code_unit) ==
    <<Backslash, 117>> \o [i \in 1 .. 4 |-> hex_digit(nibble(code_unit, i))]

\* The two-character escapes: quote, backslash, \b, \t, \n, \f and \r.
ShortEscape ==
    [c \in {34, 92, 8, 9, 10, 12, 13} |->
        CASE c = 34 -> 34 [] c = 92 -> 92 [] c = 8 -> 98 [] c = 9 -> 116
          [] c = 10 -> 110 [] c = 12 -> 102 [] c = 13 -> 114]

\* Mutant: one escape for every code point, also above U+FFFF.
EncodeCharNoPair(c) ==
    IF c \in DOMAIN ShortEscape THEN <<Backslash, ShortEscape[c]>>
    ELSE IF c \in 32 .. 126 THEN <<c>>
    ELSE push_u_escape(c)

\* One character of encode_string_ascii: 0xD800 = 55296, 0xDC00 = 56320.
encode_char(c) ==
    IF c \in DOMAIN ShortEscape THEN <<Backslash, ShortEscape[c]>>
    ELSE IF c \in 32 .. 126 THEN <<c>>
    ELSE IF c <= 65535 THEN push_u_escape(c)
    ELSE push_u_escape(55296 + ((c - 65536) \div 1024)) \o push_u_escape(56320 + ((c - 65536) % 1024))

encode_string_ascii(s) == <<Quote>> \o FlattenSeq([i \in DOMAIN s |-> encode_char(s[i])]) \o <<Quote>>

\* Elements with a comma between them.
comma_separated(parts) ==
    FlattenSeq([i \in DOMAIN parts |-> IF i = 1 THEN parts[i] ELSE <<44>> \o parts[i]])
=============================================================================
