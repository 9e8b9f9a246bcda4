----------------------------- MODULE WireCodes ------------------------------
(***************************************************************************)
(* What a signed result's bytes and texts are put together from: the heads *)
(* of CBOR items (cbor.ts), and an envelope as a QR text or a link         *)
(* (text.ts).                                                              *)
(*                                                                         *)
(* A natural number is its big-endian bytes with no zero at the front, so  *)
(* 8-byte heads have their width.  A text is a prefix and characters by    *)
(* their place in the encoding's alphabet, where one past its end is any   *)
(* other character.                                                        *)
(***************************************************************************)
EXTENDS Naturals, Sequences

UNSIGNED == 0
NEGATIVE == 1
BYTES == 2
TEXT == 3
ARRAY == 4
MAP == 5
TAG == 6
SIMPLE == 7

\* The bytes of a number below 2^16.
Digits(n) == IF n = 0 THEN <<>> ELSE IF n < 256 THEN <<n>> ELSE <<n \div 256, n % 256>>

\* At most 2^53 - 1, and for a negative number at least 1 - 2^53.
MAX_SAFE_INTEGER == <<31, 255, 255, 255, 255, 255, 255>>
isSafeInteger(digits) == Len(digits) < 7 \/ (Len(digits) = 7 /\ digits[1] < 32)
-----------------------------------------------------------------------------
(* Heads.                                                                  *)

Padded(digits, size) == [i \in 1..size - Len(digits) |-> 0] \o digits

InFirst(byte) == byte < 24

\* The shortest head.
head(major, digits) ==
  LET type == major * 32 IN
  CASE digits = <<>> -> <<type>>
    [] Len(digits) = 1 -> IF InFirst(digits[1]) THEN <<type + digits[1]>> ELSE <<type + 24>> \o digits
    [] Len(digits) = 2 -> <<type + 25>> \o digits
    [] Len(digits) \in 3..4 -> <<type + 26>> \o Padded(digits, 4)
    [] Len(digits) > 4 -> <<type + 27>> \o Padded(digits, 8)

\* take(n) has the bytes.
HasBytes(bytes, at, n) == at + n - 1 <= Len(bytes)

\* Without the zeros at the front.
Zeros(digits) == {n \in 0..Len(digits) : \A i \in 1..n : digits[i] = 0}
Strip(digits) ==
  LET most == CHOOSE n \in Zeros(digits) : \A m \in Zeros(digits) : m <= n
  IN SubSeq(digits, most + 1, Len(digits))

\* The bytes of a head's number, from the initial byte's last 5 bits.
sizeOf(info) == CASE info = 24 -> 1 [] info = 25 -> 2 [] info = 26 -> 4 [] info = 27 -> 8 [] OTHER -> 0

\* The number of a head at `at`: its bytes, and where the item goes on.
argument(bytes, at) ==
  LET info == bytes[at] % 32
      size == sizeOf(info)
      digits == IF info < 24 THEN Digits(info)
                ELSE IF HasBytes(bytes, at + 1, size) THEN Strip(SubSeq(bytes, at + 1, at + size)) ELSE <<>> IN
  [ok |-> info < 24 \/ (info < 28 /\ HasBytes(bytes, at + 1, size) /\ isSafeInteger(digits)),
   digits |-> digits, at |-> at + 1 + size]
-----------------------------------------------------------------------------
(* Texts.                                                                  *)

\* A sequence whose elements TLC evaluates once.
Tuple(s) == <<>> \o s

At(s, i) == IF i \in DOMAIN s THEN s[i] ELSE 0

NotText == [ok |-> FALSE, bytes |-> <<>>]

\* Two bytes are three characters, the low digit first; an odd byte is two.
Pair(bytes, g) ==
  IF 2 * g + 2 <= Len(bytes) THEN bytes[2 * g + 1] * 256 + bytes[2 * g + 2] ELSE bytes[2 * g + 1]

base45(bytes) ==
  Tuple([k \in 1..3 * (Len(bytes) \div 2) + 2 * (Len(bytes) % 2) |->
     LET n == Pair(bytes, (k - 1) \div 3) IN
       CASE k % 3 = 1 -> n % 45 [] k % 3 = 2 -> (n \div 45) % 45 [] k % 3 = 0 -> n \div 2025])

\* A group of characters, whole or the last two.
Whole45(text, g) == 3 * g + 3 <= Len(text)
Group45(text, g) == text[3 * g + 1] + 45 * At(text, 3 * g + 2) + 2025 * At(text, 3 * g + 3)

groupFits(n, three) == n <= IF three THEN 65535 ELSE 255

fromBase45(text) ==
  IF /\ Len(text) % 3 # 1 /\ \A i \in DOMAIN text : text[i] < 45
     /\ \A g \in 0..((Len(text) + 2) \div 3) - 1 : groupFits(Group45(text, g), Whole45(text, g))
  THEN [ok |-> TRUE,
        bytes |-> Tuple([i \in 1..2 * (Len(text) \div 3) + (IF Len(text) % 3 = 2 THEN 1 ELSE 0) |->
          LET g == (i - 1) \div 2 IN
          IF ~Whole45(text, g) THEN Group45(text, g)
          ELSE IF i % 2 = 1 THEN Group45(text, g) \div 256 ELSE Group45(text, g) % 256])]
  ELSE NotText

\* Three bytes are four characters; the last group is only as long as it needs.
Triple(bytes, g) == bytes[3 * g + 1] * 65536 + At(bytes, 3 * g + 2) * 256 + At(bytes, 3 * g + 3)

base64url(bytes) ==
  Tuple([k \in 1..(8 * Len(bytes) + 5) \div 6 |->
     LET n == Triple(bytes, (k - 1) \div 4) IN
       CASE k % 4 = 1 -> n \div 262144 [] k % 4 = 2 -> (n \div 4096) % 64
         [] k % 4 = 3 -> (n \div 64) % 64 [] k % 4 = 0 -> n % 64])

Group64(text, g) ==
  text[4 * g + 1] * 262144 + At(text, 4 * g + 2) * 4096 + At(text, 4 * g + 3) * 64 + At(text, 4 * g + 4)

\* atob()
unpacked(text) ==
  Tuple([i \in 1..(6 * Len(text)) \div 8 |->
     LET n == Group64(text, (i - 1) \div 3) IN
       CASE i % 3 = 1 -> n \div 65536 [] i % 3 = 2 -> (n \div 256) % 256 [] i % 3 = 0 -> n % 256])

fromBase64url(text) ==
  IF (\A i \in DOMAIN text : text[i] < 64) /\ Len(text) % 4 # 1 /\ base64url(unpacked(text)) = text
  THEN [ok |-> TRUE, bytes |-> unpacked(text)] ELSE NotText

qrText(envelope) == [prefix |-> "qr", text |-> base45(envelope)]
link(envelope) == [prefix |-> "link", text |-> base64url(envelope)]

envelopeFromText(t) ==
  CASE t.prefix = "qr" -> fromBase45(t.text) [] t.prefix = "link" -> fromBase64url(t.text) [] OTHER -> NotText
=============================================================================
