---------------------------- MODULE SignedFormat ----------------------------
(***************************************************************************)
(* The signed result format as the web client writes and reads it: CBOR    *)
(* (cbor.ts), payloads (result.ts) and envelopes (envelope.ts).  Pure      *)
(* operators, for TLC: the reader recurs.                                  *)
(*                                                                         *)
(* An item is its major type, the bytes of its number or string, and its   *)
(* items: a map's are key, value, key, ...  Text is ASCII.  An id, a hash  *)
(* or a signature is its bytes.                                            *)
(***************************************************************************)
EXTENDS WireCodes, TLC
LOCAL INSTANCE SequencesExt

Item(major, bytes, items) == [major |-> major, bytes |-> bytes, items |-> items]

\* No item: what a reader that throws Malformed gives.
Malformed == Item(8, <<>>, <<>>)

Uint(digits) == Item(UNSIGNED, digits, <<>>)
Small(n) == Uint(Digits(n))
Minus(n) == Item(NEGATIVE, Digits(n - 1), <<>>)
Bytes(bytes) == Item(BYTES, bytes, <<>>)
Text(bytes) == Item(TEXT, bytes, <<>>)
List(items) == Item(ARRAY, <<>>, items)
Map(pairs) == Item(MAP, <<>>, pairs)
Bool(b) == Item(SIMPLE, <<IF b THEN 21 ELSE 20>>, <<>>)
-----------------------------------------------------------------------------
(* Writing (cbor.ts encode).                                               *)

\* Where the byte strings a and b first differ, or 0.
Differ(a, b) == SelectInSeq([i \in 1..(IF Len(a) < Len(b) THEN Len(a) ELSE Len(b)) |-> a[i] # b[i]], LAMBDA d : d)

compareBytes(a, b) ==
  IF Differ(a, b) # 0 THEN a[Differ(a, b)] < b[Differ(a, b)] ELSE Len(a) < Len(b)

\* The order of cbor2's canonical=True: RFC 7049's, length first.
lengthFirst(a, b) == IF Len(a) # Len(b) THEN Len(a) < Len(b) ELSE compareBytes(a, b)

RECURSIVE Joined(_)
Joined(strings) == IF strings = <<>> THEN <<>> ELSE strings[1] \o Joined(Tail(strings))

\* encode() of the client, or the API's _dumps().
RECURSIVE encodeBy(_, _)
encodeBy(by, v) ==
  LET all == [i \in DOMAIN v.items |-> encodeBy(by, v.items[i])]
      entries == [i \in 1..Len(all) \div 2 |-> <<all[2 * i - 1], all[2 * i]>>]
      Before(a, b) == IF by = "client" THEN compareBytes(a[1], b[1]) ELSE lengthFirst(a[1], b[1]) IN
  CASE v.major \in {UNSIGNED, NEGATIVE} -> head(v.major, v.bytes)
    [] v.major = SIMPLE -> <<SIMPLE * 32 + v.bytes[1]>>
    [] v.major \in {BYTES, TEXT} -> head(v.major, Digits(Len(v.bytes))) \o v.bytes
    [] v.major = ARRAY -> head(ARRAY, Digits(Len(all))) \o Joined(all)
    [] v.major = MAP ->
         head(MAP, Digits(Len(entries))) \o Joined(Joined(SortSeq(entries, Before)))
    [] v.major = TAG -> head(TAG, v.bytes) \o all[1]

encode(v) == encodeBy("client", v)
-----------------------------------------------------------------------------
(* Reading (cbor.ts Reader).  A read is an item and where the next starts. *)

Stop == [item |-> Malformed, at |-> 0]
MAX_DEPTH == 16

\* A length, or more than any string here has.
AsLength(digits) == CASE digits = <<>> -> 0 [] Len(digits) = 1 -> digits[1]
                      [] Len(digits) = 2 -> digits[1] * 256 + digits[2] [] Len(digits) > 2 -> 65536

Ascii(bytes) == \A i \in DOMAIN bytes : bytes[i] < 128

\* Map.set(): a key that is there already keeps its place.
MapSet(pairs, key, value) ==
  LET at == SelectInSeq([i \in DOMAIN pairs |-> i % 2 = 1 /\ pairs[i] = key], LAMBDA b : b) IN
  IF at = 0 THEN pairs \o <<key, value>> ELSE [pairs EXCEPT ![at + 1] = value]

RECURSIVE item(_, _, _), itemsFrom(_, _, _, _, _), pairsFrom(_, _, _, _, _)
item(bytes, at, depth) ==
  IF depth > MAX_DEPTH \/ ~HasBytes(bytes, at, 1) THEN Stop ELSE
  LET major == bytes[at] \div 32
      arg == argument(bytes, at)
      n == AsLength(arg.digits)
      left == Len(bytes) - arg.at + 1
      Read(i, next) == [item |-> i, at |-> next] IN
  IF major = SIMPLE THEN
    IF bytes[at] % 32 \in {20, 21} THEN Read(Item(SIMPLE, <<bytes[at] % 32>>, <<>>), at + 1) ELSE Stop
  ELSE IF ~arg.ok THEN Stop
  ELSE CASE major = UNSIGNED -> Read(Uint(arg.digits), arg.at)
    [] major = NEGATIVE ->
         IF arg.digits = MAX_SAFE_INTEGER THEN Stop ELSE Read(Item(NEGATIVE, arg.digits, <<>>), arg.at)
    [] major \in {BYTES, TEXT} ->
         LET taken == SubSeq(bytes, arg.at, arg.at + n - 1) IN
         IF HasBytes(bytes, arg.at, n) /\ (major = TEXT => Ascii(taken))
         THEN Read(Item(major, taken, <<>>), arg.at + n) ELSE Stop
    [] major = ARRAY -> IF n > left THEN Stop ELSE itemsFrom(bytes, arg.at, depth + 1, n, <<>>)
    [] major = MAP -> IF n > left THEN Stop ELSE pairsFrom(bytes, arg.at, depth + 1, n, <<>>)
    [] major = TAG ->
         LET inner == item(bytes, arg.at, depth + 1) IN
         IF inner = Stop THEN Stop ELSE Read(Item(TAG, arg.digits, <<inner.item>>), inner.at)

itemsFrom(bytes, at, depth, n, sofar) ==
  IF n = 0 THEN [item |-> List(sofar), at |-> at] ELSE
  LET next == item(bytes, at, depth) IN
  IF next = Stop THEN Stop ELSE itemsFrom(bytes, next.at, depth, n - 1, Append(sofar, next.item))

pairsFrom(bytes, at, depth, n, sofar) ==
  IF n = 0 THEN [item |-> Map(sofar), at |-> at] ELSE
  LET key == item(bytes, at, depth)
      value == item(bytes, key.at, depth) IN
  IF key = Stop \/ key.item.major \notin {UNSIGNED, NEGATIVE, TEXT} THEN Stop
  ELSE IF value = Stop THEN Stop
  ELSE pairsFrom(bytes, value.at, depth, n - 1, MapSet(sofar, key.item, value.item))

\* Mutant of decode: nothing is written again to compare.
decodeLoosely(bytes) ==
  LET read == item(bytes, 1, 0) IN
  IF read # Stop /\ read.at = Len(bytes) + 1 THEN read.item ELSE Malformed

\* One item of all the bytes, which is written as them.
decode(bytes) ==
  LET read == item(bytes, 1, 0) IN
  IF read # Stop /\ read.at = Len(bytes) + 1 /\ encode(read.item) = bytes THEN read.item ELSE Malformed
-----------------------------------------------------------------------------
(* The format's tables.                                                    *)

KeysOf(map) == {map.items[2 * i - 1] : i \in 1..Len(map.items) \div 2}
Get(map, key) == map.items[2 * (CHOOSE i \in 1..Len(map.items) \div 2 : map.items[2 * i - 1] = key)]

exactKeys(v, required, optional) ==
  v.major = MAP /\ required \subseteq KeysOf(v) /\ KeysOf(v) \subseteq required \cup optional

bstr(v, length) == v.major = BYTES /\ Len(v.bytes) = length
uint(v) == v.major = UNSIGNED
side(v) == v \in {Small(0), Small(1)}
array(v, length) == v.major = ARRAY /\ Len(v.items) = length

\* Names of the maps' keys, as numbers or the ASCII of their text.
IAT == Small(6)
DOMAIN_TAG == Text(<<102, 111, 114, 116, 121, 109, 109, 47, 109, 97, 116, 99, 104, 45, 114, 101, 115, 117, 108,
                     116, 47, 118, 49>>)
PLAYER == Text(<<112, 108, 97, 121, 101, 114>>)
ALG == Small(1)
KID == Small(4)
MATCH == Small(1)
BEST_OF == Small(2)
RATED == Small(3)
PLAYERS == Small(4)
GAMES == Small(5)
ENDING == Small(6)
RETIRED_BY == Small(7)
REPLACES == Small(8)

\* 9999-12-31T23:59:59Z.
MAX_IAT == <<58, 255, 244, 65, 127>>
NotAfter(a, b) == IF Len(a) # Len(b) THEN Len(a) < Len(b) ELSE a = b \/ compareBytes(a, b)

\* A result: match and players as 16 bytes, each game's points as numbers,
\* retiredBy a side or 2 for a completed match, replaces 32 bytes or none.
mayEncode(issuedAt, r) ==
  NotAfter(issuedAt, MAX_IAT) /\ r.players[1] # r.players[2] /\ Len(r.games) <= r.bestOf

resultItem(r) ==
  Map(<<MATCH, Bytes(r.match), BEST_OF, Small(r.bestOf), RATED, Bool(r.rated),
        PLAYERS, List(<<Bytes(r.players[1]), Bytes(r.players[2])>>),
        GAMES, List([g \in DOMAIN r.games |-> List(<<Uint(r.games[g][1]), Uint(r.games[g][2])>>)]),
        ENDING, Small(IF r.retiredBy = 2 THEN 0 ELSE 1)>>
      \o (IF r.retiredBy = 2 THEN <<>> ELSE <<RETIRED_BY, Small(r.retiredBy)>>)
      \o (IF r.replaces = <<>> THEN <<>> ELSE <<REPLACES, Bytes(r.replaces)>>))

payloadItem(issuedAt, r) == Map(<<IAT, Uint(issuedAt), DOMAIN_TAG, resultItem(r)>>)

encodePayload(issuedAt, r) == encode(payloadItem(issuedAt, r))

NoPayload == [issuedAt |-> <<>>, result |-> <<>>]

Bounded(bestOf) == bestOf \in {Small(1), Small(3), Small(5), Small(7)}

endingFits(r) ==
  IF RETIRED_BY \in KeysOf(r) THEN Get(r, ENDING) = Small(1) /\ side(Get(r, RETIRED_BY))
  ELSE Get(r, ENDING) = Small(0)

\* decodePayload()'s checks of the result map.
resultFits(r) ==
  /\ exactKeys(r, {MATCH, BEST_OF, RATED, PLAYERS, GAMES, ENDING}, {RETIRED_BY, REPLACES})
  /\ bstr(Get(r, MATCH), 16) /\ Bounded(Get(r, BEST_OF)) /\ Get(r, RATED).major = SIMPLE
  /\ array(Get(r, PLAYERS), 2) /\ \A p \in {1, 2} : bstr(Get(r, PLAYERS).items[p], 16)
  /\ Get(r, PLAYERS).items[1] # Get(r, PLAYERS).items[2]
  /\ Get(r, GAMES).major = ARRAY /\ Len(Get(r, GAMES).items) <= Get(r, BEST_OF).bytes[1]
  /\ \A g \in DOMAIN Get(r, GAMES).items :
       array(Get(r, GAMES).items[g], 2) /\ \A p \in {1, 2} : uint(Get(r, GAMES).items[g].items[p])
  /\ REPLACES \in KeysOf(r) => bstr(Get(r, REPLACES), 32)
  /\ endingFits(r)

resultOfItem(r) ==
  [match |-> Get(r, MATCH).bytes, bestOf |-> Get(r, BEST_OF).bytes[1],
   rated |-> Get(r, RATED) = Bool(TRUE),
   players |-> [p \in {1, 2} |-> Get(r, PLAYERS).items[p].bytes],
   games |-> [g \in DOMAIN Get(r, GAMES).items |-> [p \in {1, 2} |-> Get(r, GAMES).items[g].items[p].bytes]],
   retiredBy |-> IF RETIRED_BY \in KeysOf(r) THEN AsLength(Get(r, RETIRED_BY).bytes) ELSE 2,
   replaces |-> IF REPLACES \in KeysOf(r) THEN Get(r, REPLACES).bytes ELSE <<>>]

payloadOf(claims) ==
  IF /\ exactKeys(claims, {IAT, DOMAIN_TAG}, {})
     /\ uint(Get(claims, IAT)) /\ NotAfter(Get(claims, IAT).bytes, MAX_IAT)
     /\ resultFits(Get(claims, DOMAIN_TAG))
  THEN [issuedAt |-> Get(claims, IAT).bytes, result |-> resultOfItem(Get(claims, DOMAIN_TAG))]
  ELSE NoPayload

decodePayload(bytes) == payloadOf(decode(bytes))
-----------------------------------------------------------------------------
(* Envelopes (envelope.ts).  A signature is 64 bytes by the key of a kid.  *)

COSE_SIGN == Digits(98)
ES256 == Minus(7)

signerHeader(kid, s) == encode(Map(<<ALG, ES256, KID, Bytes(kid), PLAYER, Small(s)>>))

sigStructure(header, payload) ==
  encode(List(<<Text(<<83, 105, 103, 110, 97, 116, 117, 114, 101>>), Bytes(<<>>), Bytes(header), Bytes(<<>>),
                Bytes(payload)>>))

envelopeItem(payload, signatures) ==
  Item(TAG, COSE_SIGN,
       <<List(<<Bytes(<<>>), Map(<<>>), Bytes(payload),
                List([s \in DOMAIN signatures |->
                  List(<<Bytes(signatures[s].header), Map(<<>>), Bytes(signatures[s].signature)>>)])>>)>>)

assembleEnvelope(payload, signatures) == encode(envelopeItem(payload, signatures))

\* A key's COSE_Key, whose hash is its kid, and the proof that registers it
\* to an account (cose.ts).
coseKey(x, y) == Map(<<Small(1), Small(2), Minus(1), Small(1), Minus(2), Bytes(x), Minus(3), Bytes(y)>>)

REGISTRATION_TAG == Text(<<102, 111, 114, 116, 121, 109, 109, 47, 107, 101, 121, 45, 114, 101, 103, 105, 115, 116,
                           114, 97, 116, 105, 111, 110, 47, 118, 49>>)

registrationProof(kid, account, signature) ==
  Item(TAG, Digits(18),
       <<List(<<Bytes(encode(Map(<<ALG, ES256, KID, Bytes(kid)>>))), Map(<<>>),
                Bytes(encode(Map(<<REGISTRATION_TAG, Map(<<Small(1), Bytes(account)>>)>>))), Bytes(signature)>>)>>)

NoEnvelope == [payload |-> <<>>, signatures |-> <<>>]

headerFits(header) ==
  /\ exactKeys(header, {ALG, KID, PLAYER}, {})
  /\ Get(header, ALG) = ES256 /\ bstr(Get(header, KID), 32) /\ side(Get(header, PLAYER))

signerFits(s) ==
  /\ array(s, 3) /\ s.items[1].major = BYTES /\ exactKeys(s.items[2], {}, {}) /\ bstr(s.items[3], 64)
  /\ headerFits(decode(s.items[1].bytes))

signerOf(s) ==
  LET header == decode(s.items[1].bytes) IN
  [header |-> s.items[1].bytes, signature |-> s.items[3].bytes,
   kid |-> Get(header, KID).bytes, side |-> AsLength(Get(header, PLAYER).bytes)]

envelopeOf(envelope) ==
  LET parts == envelope.items[1].items
      signatures == parts[4].items IN
  IF /\ envelope.major = TAG /\ envelope.bytes = COSE_SIGN /\ array(envelope.items[1], 4)
     /\ bstr(parts[1], 0) /\ exactKeys(parts[2], {}, {}) /\ parts[3].major = BYTES
     /\ decodePayload(parts[3].bytes) # NoPayload
     /\ parts[4].major = ARRAY /\ signatures # <<>> /\ \A s \in DOMAIN signatures : signerFits(signatures[s])
  THEN [payload |-> parts[3].bytes, signatures |-> [s \in DOMAIN signatures |-> signerOf(signatures[s])]]
  ELSE NoEnvelope

decodeEnvelope(bytes) == envelopeOf(decode(bytes))
=============================================================================
