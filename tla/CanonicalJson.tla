---------------------------- MODULE CanonicalJson ----------------------------
(***************************************************************************)
(* pqroute.rs: canonical, the JSON encoder whose bytes go into the AAD of  *)
(* a routed envelope.  A serde_json Value is a record with a kind; strings *)
(* are sequences of code points, objects sequences of members in insertion *)
(* order with distinct keys, and the output is a sequence of bytes.        *)
(***************************************************************************)
EXTENDS JsonStrings

\* String order: UTF-8 byte order is code point order.
RECURSIVE string_less(_, _)
string_less(s, t) ==
    CASE t = <<>> -> FALSE
      [] t # <<>> /\ s = <<>> -> TRUE
      [] OTHER -> IF s[1] = t[1] THEN string_less(Tail(s), Tail(t)) ELSE s[1] < t[1]

\* Mutant: the members stay in insertion order.
InsertionOrder(members) == members

sorted_members(members) == SortSeq(members, LAMBDA a, b : string_less(a.key, b.key))

\* Numbers are natural numbers in decimal.
RECURSIVE decimal(_)
decimal(n) == IF n < 10 THEN <<48 + n>> ELSE Append(decimal(n \div 10), 48 + (n % 10))

RECURSIVE canonical(_)
canonical(v) ==
    CASE v.kind = "Null"   -> <<110, 117, 108, 108>>
      [] v.kind = "Bool"   -> IF v.is THEN <<116, 114, 117, 101>> ELSE <<102, 97, 108, 115, 101>>
      [] v.kind = "Number" -> decimal(v.is)
      [] v.kind = "String" -> encode_string_ascii(v.is)
      [] v.kind = "Array"  -> <<91>> \o comma_separated([i \in DOMAIN v.is |-> canonical(v.is[i])]) \o <<93>>
      [] v.kind = "Object" ->
           LET m == sorted_members(v.is)
           IN  <<123>>
               \o comma_separated([i \in DOMAIN m |->
                      encode_string_ascii(m[i].key) \o <<58>> \o canonical(m[i].value)])
               \o <<125>>

-----------------------------------------------------------------------------
(* A reader of the output, as RFC 8259 defines it, to compare with.        *)

hex_value(b) == IF b < 58 THEN b - 48 ELSE b - 87

unit_at(bytes, i) ==
    hex_value(bytes[i + 2]) * 4096 + hex_value(bytes[i + 3]) * 256
        + hex_value(bytes[i + 4]) * 16 + hex_value(bytes[i + 5])

\* The code points of the string literal that starts after position i - 1.
RECURSIVE read_string(_, _)
read_string(bytes, i) ==
    IF bytes[i] = Quote THEN <<>>
    ELSE IF bytes[i] # Backslash THEN <<bytes[i]>> \o read_string(bytes, i + 1)
    ELSE IF bytes[i + 1] # 117
         THEN <<CHOOSE c \in DOMAIN ShortEscape : ShortEscape[c] = bytes[i + 1]>>
                 \o read_string(bytes, i + 2)
    ELSE IF unit_at(bytes, i) \in 55296 .. 56319
         THEN <<65536 + (unit_at(bytes, i) - 55296) * 1024 + (unit_at(bytes, i + 6) - 56320)>>
                 \o read_string(bytes, i + 12)
    ELSE <<unit_at(bytes, i)>> \o read_string(bytes, i + 6)
=============================================================================
