----------------------------- MODULE ResultWire -----------------------------
(***************************************************************************)
(* A signed result from one device to another: the first signs it and      *)
(* shows it as a QR text or a link, it may come wrong, and the second      *)
(* reads it, checks its signatures and adds its own (envelope.ts,          *)
(* verify.ts).  Beside it, single items at the edges of CBOR's heads.      *)
(*                                                                         *)
(* A signature is 64 bytes that only its key makes, and `signings` says    *)
(* over what.  A key's id and a hash are 32 bytes of their own.            *)
(***************************************************************************)
EXTENDS SignedFormat, FiniteSets

CONSTANTS
  Written,     \* what the first signs: issuedAt and result
  Kid,         \* the bytes that key ids are filled with
  EdgeItems,   \* single items
  Wrong,       \* the bytes that one byte may come as
  WrongChar,   \* and the characters that one may come as
  Places       \* where it may

ASSUME WireAssumption ==
  /\ Places \subseteq Nat /\ Wrong \subseteq 0..255 /\ WrongChar \subseteq 0..64
  /\ \A w \in Written : mayEncode(w.issuedAt, w.result)

VARIABLES
  written,   \* what was signed, or an item
  signings,  \* the signatures made: kid, message and bytes
  envelope,  \* the envelope's bytes, right or wrong
  text,      \* its text
  right,     \* nothing came wrong
  got        \* what the second device has of it

wireVars == <<written, signings, envelope, text, right, got>>

NoText == [prefix |-> "none", text |-> <<>>]
NoGot == [step |-> "none", payload |-> <<>>, signatures |-> <<>>, holds |-> FALSE, item |-> Malformed]

kidOf(k) == [i \in 1..32 |-> k]
signatureOf(n) == [i \in 1..64 |-> n]

\* signaturesHold(): each by the key that its header names, over the payload.
holds(s, payload) == [kid |-> s.kid, message |-> sigStructure(s.header, payload), bytes |-> s.signature] \in signings

signaturesHold(payload, signatures) == \A s \in DOMAIN signatures : holds(signatures[s], payload)

\* cosign(): a signature and what it's over.
cosign(kid, payload, s) ==
  LET header == signerHeader(kidOf(kid), s) IN
  [signature |-> [header |-> header, signature |-> signatureOf(Cardinality(signings) + 1)],
   over |-> [kid |-> kidOf(kid), message |-> sigStructure(header, payload),
             bytes |-> signatureOf(Cardinality(signings) + 1)]]
-----------------------------------------------------------------------------
WireInit ==
  /\ \/ written \in {[kind |-> "result", issuedAt |-> w.issuedAt, result |-> w.result, item |-> Malformed] : w \in Written}
     \/ written \in {[kind |-> "item", issuedAt |-> <<>>, result |-> <<>>, item |-> i] : i \in EdgeItems}
  /\ signings = {} /\ envelope = <<>> /\ text = NoText /\ right = TRUE /\ got = NoGot

\* One item, encoded and decoded.
DecodeItem ==
  /\ written.kind = "item" /\ got.step = "none"
  /\ envelope' = encode(written.item) /\ got' = [NoGot EXCEPT !.step = "read", !.item = decode(envelope')]
  /\ UNCHANGED <<written, signings, text, right>>

signResult ==
  /\ written.kind = "result" /\ envelope = <<>>
  /\ \E kid \in Kid, s \in {0, 1} :
       LET payload == encodePayload(written.issuedAt, written.result)
           signed == cosign(kid, payload, s) IN
       /\ envelope' = assembleEnvelope(payload, <<signed.signature>>) /\ signings' = {signed.over}
  /\ UNCHANGED <<written, text, right, got>>

\* One byte of the envelope is another, or missing.
WrongByte ==
  /\ envelope # <<>> /\ right /\ got.step = "none" /\ text = NoText /\ right' = FALSE
  /\ \E i \in DOMAIN envelope \cap Places :
       \/ \E b \in Wrong \ {envelope[i]} : envelope' = [envelope EXCEPT ![i] = b]
       \/ envelope' = SubSeq(envelope, 1, i - 1) \o SubSeq(envelope, i + 1, Len(envelope))
  /\ UNCHANGED <<written, signings, text, got>>

Show ==
  /\ envelope # <<>> /\ text = NoText /\ written.kind = "result"
  /\ text' \in {qrText(envelope), link(envelope)}
  /\ UNCHANGED <<written, signings, envelope, right, got>>

\* One character of the text is another or missing.
WrongText ==
  /\ text # NoText /\ right /\ got.step = "none" /\ right' = FALSE
  /\ \E i \in DOMAIN text.text \cap Places :
       \/ \E c \in WrongChar \ {text.text[i]} : text' = [text EXCEPT !.text[i] = c]
       \/ text' = [text EXCEPT !.text = SubSeq(@, 1, i - 1) \o SubSeq(@, i + 1, Len(@))]
  /\ UNCHANGED <<written, signings, envelope, got>>

\* What's made of an envelope that's read from a text, where `ok` says that
\* the text was one.
Seen(ok, read) ==
  IF ~ok \/ read = NoEnvelope THEN [NoGot EXCEPT !.step = "malformed"]
  ELSE [step |-> "read", payload |-> read.payload, signatures |-> read.signatures,
        holds |-> signaturesHold(read.payload, read.signatures), item |-> Malformed]

\* The second device reads the text.
Read ==
  /\ text # NoText /\ got.step = "none"
  /\ LET bytes == envelopeFromText(text) IN
     /\ envelope' = bytes.bytes /\ got' = Seen(bytes.ok, decodeEnvelope(bytes.bytes))
  /\ UNCHANGED <<written, signings, text, right>>

\* The payload that the second device signs: the bytes it received.
Cosigned(payload) == payload

\* What it signs, it first checked (approvals/new.tsx).
appendSignature ==
  /\ got.step = "read" /\ got.holds /\ written.kind = "result" /\ Len(got.signatures) = 1
  /\ \E kid \in Kid, s \in {0, 1} :
       LET payload == Cosigned(got.payload)
           signed == cosign(kid, payload, s)
           both == assembleEnvelope(payload,
             <<[header |-> got.signatures[1].header, signature |-> got.signatures[1].signature], signed.signature>>) IN
       /\ signings' = signings \cup {signed.over} /\ envelope' = both /\ text' = link(both)
  /\ got' = [NoGot EXCEPT !.step = "none"]
  /\ UNCHANGED <<written, right>>

WireNext == DecodeItem \/ signResult \/ WrongByte \/ Show \/ WrongText \/ Read \/ appendSignature

WireSpec == WireInit /\ [][WireNext]_wireVars
-----------------------------------------------------------------------------
(* Properties.                                                             *)

\* Bytes are bytes and characters are the alphabet's, or the one that isn't.
WireTypeOK ==
  /\ envelope \in Seq(0..255) /\ text.prefix \in {"none", "qr", "link"} /\ text.text \in Seq(0..64)
  /\ \A m \in signings : m.message \in Seq(0..255) /\ Len(m.kid) = 32 /\ Len(m.bytes) = 64
  /\ got.step \in {"none", "read", "malformed"}

\* At the edges of the heads, an item is read as it was written, and a number
\* beyond JavaScript's safe integers isn't read as a near one (cbor.ts).
EdgesReadBack ==
  written.kind = "item" /\ got.step = "read" =>
    got.item = IF /\ written.item.major \in {UNSIGNED, NEGATIVE} => isSafeInteger(written.item.bytes)
                  /\ written.item.major = NEGATIVE => written.item.bytes # MAX_SAFE_INTEGER
                  /\ item(encode(written.item), 1, 0) # Stop
               THEN written.item ELSE Malformed

\* What comes as it was shown holds, and says what was signed.
ReadsAsSigned ==
  right /\ written.kind = "result" /\ got.step # "none" =>
    /\ got.step = "read" /\ got.holds
    /\ decodePayload(got.payload) = [issuedAt |-> written.issuedAt, result |-> written.result]

\* An envelope is read from one text and one string of bytes only: the ones
\* that it's written as.  So one result has one hash.
OneFormEach ==
  written.kind = "result" /\ got.step = "read" =>
    LET read == decodePayload(got.payload) IN
    /\ text = IF text.prefix = "qr" THEN qrText(envelope) ELSE link(envelope)
    /\ envelope = assembleEnvelope(got.payload, got.signatures)
    /\ got.payload = encodePayload(read.issuedAt, read.result)

\* Whatever came wrong, a result whose signatures hold is the one that was
\* signed, for the sides that were signed for.
HoldsAsSigned ==
  written.kind = "result" /\ got.holds =>
    /\ decodePayload(got.payload) = [issuedAt |-> written.issuedAt, result |-> written.result]
    /\ \A s \in DOMAIN got.signatures :
         [kid |-> got.signatures[s].kid, message |-> sigStructure(got.signatures[s].header, got.payload),
          bytes |-> got.signatures[s].signature] \in signings

\* All who signed signed the same bytes, so their signatures are of one result.
SignersSignOneResult ==
  \A m \in signings : \E k \in Kid, s \in {0, 1} :
    m.message = sigStructure(signerHeader(kidOf(k), s), encodePayload(written.issuedAt, written.result))

\* The API's encoder, which sorts a map's keys by length first, writes the
\* same payload, envelope and key (signed_results.py:13), and the proof that
\* registers a key has the 160 bytes that the API expects.
ApiWritesTheSame ==
  /\ written.kind = "result" =>
       /\ LET payload == payloadItem(written.issuedAt, written.result) IN encodeBy("api", payload) = encode(payload)
       /\ got.step = "read" =>
            LET whole == envelopeItem(got.payload, got.signatures) IN encodeBy("api", whole) = encode(whole)
  /\ written.kind = "item" /\ got.step = "read" => \A k \in Kid :
       LET key == coseKey(kidOf(k), kidOf(k + 1))
           proof == encode(registrationProof(kidOf(k), SubSeq(kidOf(k), 1, 16), signatureOf(k))) IN
       /\ encodeBy("api", key) = encode(key) /\ Len(encode(key)) = 75
       /\ Len(proof) = 160 /\ decode(proof) # Malformed

\* A result is what was signed or nothing, in one form that both languages
\* write.
WireInv ==
  /\ WireTypeOK /\ EdgesReadBack /\ ReadsAsSigned /\ OneFormEach
  /\ HoldsAsSigned /\ SignersSignOneResult /\ ApiWritesTheSame
=============================================================================
