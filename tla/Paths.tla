------------------------------- MODULE Paths -------------------------------
(***************************************************************************)
(* What becomes of a name on its way through a path: DBConn::urlEncode,    *)
(* and StaticHandler::parsePath, which undoes an encoding byte by byte.    *)
(* Bytes are numbers, 0 to 255.                                            *)
(***************************************************************************)
EXTENDS Integers, Sequences

CONSTANTS
    Bytes,               \* bytes names and paths are made of
    MaxName, MaxTyped    \* bounds: lengths of names, of paths people type

ASSUME PathsAssumption ==
    Bytes \subseteq 1..255 /\ MaxName \in Nat /\ MaxTyped \in Nat

Percent == 37
Plus == 43
Minus == 45
Space == 32

VARIABLES
    name,                \* what was encoded, if anything
    path,                \* what parsePath is given
    how,                 \* who made the path
    p,                   \* the iterator, as a position in path
    retVal,              \* what has been decoded
    verdict              \* "reading", "done" or "refused"

pathVars == <<name, path, how, p, retVal, verdict>>

Hex == [c \in 0..255 |-> IF c \in 48..57 THEN c - 48
                         ELSE IF c \in 65..70 THEN c - 55
                         ELSE IF c \in 97..102 THEN c - 87
                         ELSE 16]

IsHex(c) == Hex[c] < 16

Digit(d) == IF d < 10 THEN 48 + d ELSE 55 + d

(* Mutant: without fill('0'), so that setw pads with spaces.               *)
PaddedEscape(c) ==
    <<Percent, IF c < 16 THEN Space ELSE Digit(c \div 16), Digit(c % 16)>>

(* '%' << uppercase << setw(2) << int(ch), in hex and filled with zeros    *)
EscapeOf(c) == <<Percent, Digit(c \div 16), Digit(c % 16)>>

(* Mutant: isprint, as browsers do in a path.                              *)
Printable(c) == c \in 33..126

(* isalnum, '-', '.', '_' and '~'                                          *)
IsPlain(c) == c \in 48..57 \cup 65..90 \cup 97..122 \cup {45, 46, 95, 126}

urlEncode(s) ==
    LET enc[i \in 0..Len(s)] ==
            IF i = 0 THEN <<>>
            ELSE enc[i - 1] \o (IF IsPlain(s[i]) THEN <<s[i]>>
                                                ELSE EscapeOf(s[i]))
    IN  enc[Len(s)]

(* libpq: every escape has two hexadecimal digits, and nothing else stands *)
(* for another character.  Of a string being read, text is decoded, left   *)
(* is the number of digits still to come, value what the one before it is, *)
(* and fate is "error" after a broken escape.                              *)
Libpq(text, left, value, fate) ==
    [text |-> text, left |-> left, value |-> value, fate |-> fate]

LibpqRead(st, c) ==
    CASE st.left = 0 /\ c # Percent -> Libpq(Append(st.text, c), 0, 0, st.fate)
      [] st.left = 0 /\ c = Percent -> Libpq(st.text, 2, 0, st.fate)
      [] st.left # 0 /\ ~IsHex(c) -> Libpq(st.text, 0, 0, "error")
      [] st.left = 2 /\ IsHex(c) -> Libpq(st.text, 1, Hex[c], st.fate)
      [] st.left = 1 /\ IsHex(c) ->
            Libpq(Append(st.text, 16 * st.value + Hex[c]), 0, 0, st.fate)

LibpqDecode(s) ==
    LET read[i \in 0..Len(s)] ==
            IF i = 0 THEN Libpq(<<>>, 0, 0, "fine")
            ELSE LibpqRead(read[i - 1], s[i])
    IN  read[Len(s)]

-----------------------------------------------------------------------------

(* The type invariant: in particular a decoded byte is one, also of an     *)
(* escape that stoi reads as a negative number.                            *)
PathTypeOK ==
    /\ name \in Seq(Bytes) /\ path \in Seq(1..255)
    /\ how \in {"encoded", "typed"}
    /\ p \in Nat \ {0}
    /\ retVal \in Seq(0..255)
    /\ verdict \in {"reading", "done", "refused"}

PathInit ==
    /\ \/ /\ how = "encoded"
          /\ name \in UNION {[1..n -> Bytes] : n \in 1..MaxName}
          /\ path = urlEncode(name)
       \/ /\ how = "typed" /\ name = <<>>
          /\ path \in UNION {[1..n -> Bytes] : n \in 0..MaxTyped}
    /\ p = 1 /\ retVal = <<>> /\ verdict = "reading"

(* *p.  end() is the terminating zero; what comes after it may be anything *)
(* (the program has no business there).                                    *)
ByteAt(i) == IF i <= Len(path) THEN {path[i]}
             ELSE IF i = Len(path) + 1 THEN {0}
             ELSE Bytes \cup {0}

(* What stoi steps over before the digits: isspace, and a sign.            *)
Skipped == (9..13) \cup {Space, Plus, Minus}

(* Mutant: pos, the number of characters stoi used, is not looked at.      *)
StartsLikeNumber(c, d) == IsHex(c) \/ (c \in Skipped /\ IsHex(d))

(* stoi(tmp, &pos, 16) with pos = 2: blanks and a sign before the digits   *)
(* are fine with it.                                                       *)
Converts(c, d) == IsHex(d) /\ (IsHex(c) \/ c \in Skipped)

(* Mutant: the number as stoi returns it, and not as a char.               *)
WideValue(c, d) == IF IsHex(c) THEN 16 * Hex[c] + Hex[d]
                   ELSE IF c = Minus THEN 0 - Hex[d] ELSE Hex[d]

(* char chr = ...                                                          *)
Value(c, d) == IF IsHex(c) THEN 16 * Hex[c] + Hex[d]
               ELSE IF c = Minus THEN (256 - Hex[d]) % 256 ELSE Hex[d]

More == verdict = "reading" /\ p # Len(path) + 1

Append1(n, c) == /\ p' = p + n
                 /\ retVal' = Append(retVal, c)
                 /\ UNCHANGED <<name, path, how, verdict>>

Copy == /\ More
        /\ \E c \in ByteAt(p) :
              /\ c # Percent
              /\ Append1(1, IF c = Plus THEN Space ELSE c)

Unescape == /\ More /\ Percent \in ByteAt(p)
            /\ \E c \in ByteAt(p + 1), d \in ByteAt(p + 2) :
                  Converts(c, d) /\ Append1(3, Value(c, d))

Refuse == /\ More /\ Percent \in ByteAt(p)
          /\ \E c \in ByteAt(p + 1), d \in ByteAt(p + 2) : ~Converts(c, d)
          /\ verdict' = "refused"
          /\ UNCHANGED <<name, path, how, p, retVal>>

Return == /\ verdict = "reading" /\ ~More
          /\ verdict' = "done"
          /\ UNCHANGED <<name, path, how, p, retVal>>

PathNext == Copy \/ Unescape \/ Refuse \/ Return

PathSpec == PathInit /\ [][PathNext]_pathVars

-----------------------------------------------------------------------------
(* Properties.                                                             *)

(* Between the rounds of its loop the iterator is never beyond the end of  *)
(* the path: the loop tests for being there exactly, and each escape moves *)
(* on by three bytes without a look.  What saves it is that no number ends *)
(* with the path's zero.  Within a round more is read: after a '%' at the  *)
(* very end, the zero and the byte behind it (ByteAt), which are refused.  *)
StaysInPath == p <= Len(path) + 1

(* A file is found under its name, whatever the name, if the link to it is *)
(* encoded as urlEncode does it.                                           *)
EncodedIsFound ==
    how = "encoded" => /\ verdict # "refused"
                       /\ verdict = "done" => retVal = name

(* What DBConn's constructor writes into the URI, libpq reads: a password  *)
(* may consist of any characters.                                          *)
UriIsRead ==
    how = "encoded" => LibpqDecode(path) = Libpq(name, 0, 0, "fine")

=============================================================================
