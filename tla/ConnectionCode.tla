--------------------------- MODULE ConnectionCode ---------------------------
(***************************************************************************)
(* The code that an operator passes on to the user of the agent            *)
(* (EncodeConnectionInfo and DecodeConnectionInfo in                       *)
(* internal/auth/auth.go): url|token in URL-safe base64, from which the    *)
(* decoder removes the spaces and dashes that pasting may have added.  The *)
(* digit 62 of this base64 is itself a dash, which only two bytes of ASCII *)
(* lead to.                                                                *)
(*                                                                         *)
(* Bytes and digits are numbers.                                           *)
(***************************************************************************)
EXTENDS Integers, Sequences

Bar == 124    \* the byte '|'
Dash == 62    \* the digit '-'
Space == 64   \* no digit

(* ASCII without '>' and '~', whose last six bits are the digit 62.  Tokens   *)
(* (base64) and the addresses of tunnels have no other bytes; an address    *)
(* that the operator sets may have.                                         *)
PlainBytes == {b \in 0..127 : b % 64 # Dash}

NoCode == [url |-> <<>>, token |-> <<>>, ok |-> FALSE]

(* base64.RawURLEncoding: three bytes are four digits, and no padding.       *)
ToDigits(b) ==
  LET B(i) == IF i <= Len(b) THEN b[i] ELSE 0
      Digit(g, r) == CASE r = 0 -> B(3*g + 1) \div 4
                       [] r = 1 -> (B(3*g + 1) % 4) * 16 + B(3*g + 2) \div 16
                       [] r = 2 -> (B(3*g + 2) % 16) * 4 + B(3*g + 3) \div 64
                       [] r = 3 -> B(3*g + 3) % 64
  IN [j \in 1..((4 * Len(b) + 2) \div 3) |-> Digit((j - 1) \div 4, (j - 1) % 4)]

ToBytes(d) ==
  LET D(i) == IF i <= Len(d) THEN d[i] ELSE 0
      Byte(g, r) == CASE r = 0 -> D(4*g + 1) * 4 + D(4*g + 2) \div 16
                      [] r = 1 -> (D(4*g + 2) % 16) * 16 + D(4*g + 3) \div 4
                      [] r = 2 -> (D(4*g + 3) % 4) * 64 + D(4*g + 4)
  IN [j \in 1..((3 * Len(d)) \div 4) |-> Byte((j - 1) \div 3, (j - 1) % 3)]

EncodeConnectionInfo(url, token) == ToDigits(url \o <<Bar>> \o token)

Without(code, chars) ==
  LET Kept[i \in 0..Len(code)] ==
        IF i = 0 THEN <<>>
        ELSE IF code[i] \in chars THEN Kept[i - 1] ELSE Append(Kept[i - 1], code[i])
  IN Kept[Len(code)]

(* A variant for a mutant: only the spaces are removed.                     *)
CleanedOfSpaces(code) == Without(code, {Space})

Cleaned(code) == Without(code, {Space, Dash})

(* What is before the first bar, and what is after it.                      *)
DecodeConnectionInfo(code) ==
  LET digits == Cleaned(code)
      data == ToBytes(digits)
      bars == {i \in 1..Len(data) : data[i] = Bar}
  IN IF Len(digits) % 4 = 1 \/ bars = {}
     THEN NoCode
     ELSE LET i == CHOOSE j \in bars : \A k \in bars : j <= k
          IN [url |-> SubSeq(data, 1, i - 1),
              token |-> SubSeq(data, i + 1, Len(data)),
              ok |-> TRUE]

(* What the user may have pasted: blanks anywhere, dashes to group it.       *)
Pasted(code, at, c) == SubSeq(code, 1, at) \o <<c>> \o SubSeq(code, at + 1, Len(code))
=============================================================================
