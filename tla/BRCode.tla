-------------------------------- MODULE BRCode --------------------------------
(***************************************************************************)
(* internal/emv: the BR Code of a charge, and one that reached its reader  *)
(* with a character changed or two neighbours swapped.                     *)
(*                                                                         *)
(* A text is a sequence of bytes.  Fixed texts (GUI, currency, default     *)
(* names) are that many of one letter: nothing reads them but their length.*)
(* The bits of a CRC register are the set of the positions that are one.   *)
(***************************************************************************)
EXTENDS Money, SequencesExt, TLC

Byte == 0..255
Text == Seq(Byte)

RuneStart(byte) == byte \notin 128..191

CONSTANTS Request

ASSUME RequestAssumption ==
    /\ Request \subseteq [original : Text, key : Text, description : Text,
                          name : Text, city : Text, txid : Text]
    /\ \A r \in Request : r.description # <<>> => RuneStart(r.description[1])

Times(n, c) == [i \in 1..n |-> c]
Letter == 65..90
Space == 32
TwoDigits(n) == <<48 + n \div 10, 48 + (n % 10)>>

-----------------------------------------------------------------------------
(***************************************************************************)
(* tlv.go.                                                                 *)
(***************************************************************************)
maxValueLen == 99

TLV(id, value) == [id |-> id, value |-> value]

Encode(f) == TwoDigits(f.id) \o TwoDigits(Len(f.value)) \o f.value

Encodes(fields) == \A i \in DOMAIN fields : Len(fields[i].value) <= maxValueLen

EncodeAll(fields) == FlattenSeq([i \in DOMAIN fields |-> Encode(fields[i])])

Pair(text, i) == 10 * (text[i] - 48) + text[i + 1] - 48

\* Parse from the byte at i on; a text that is not TLV gives ok = FALSE.
Parse(text) ==
    LET n == Len(text)
        Header(i) == i + 3 <= n /\ isDigits(SubSeq(text, i, i + 3))
        After(i) == i + 4 + Pair(text, i + 2)
        parsed[i \in 1..(n + 1)] ==
            IF i > n THEN [ok |-> TRUE, fields |-> <<>>]
            ELSE IF ~Header(i) \/ After(i) > n + 1 THEN [ok |-> FALSE, fields |-> <<>>]
            ELSE LET rest == parsed[After(i)] IN
                 [rest EXCEPT !.fields =
                     <<TLV(Pair(text, i), SubSeq(text, i + 4, After(i) - 1))>> \o @]
    IN  parsed[1]

Find(fields, id) == fields[Min({i \in DOMAIN fields : fields[i].id = id})].value

Has(fields, id) == \E i \in DOMAIN fields : fields[i].id = id

-----------------------------------------------------------------------------
(***************************************************************************)
(* crc.go: CRC-16/CCITT-FALSE.                                             *)
(***************************************************************************)
Xor(a, b) == (a \ b) \cup (b \ a)
Bits(n) == {b \in 0..7 : (n \div 2 ^ b) % 2 = 1}
Polynomial == {0, 5, 12}   \* 0x1021

Shifted(crc) == {b + 1 : b \in crc \ {15}}

Clocked(crc) == IF 15 \in crc THEN Xor(Shifted(crc), Polynomial) ELSE Shifted(crc)

Twice(crc) == Clocked(Clocked(crc))

\* Eight clocks for a byte.
Fed(crc, byte) == Twice(Twice(Twice(Twice(Xor(crc, {b + 8 : b \in Bits(byte)})))))

\* A left fold; the singleton makes TLC evaluate each value before it goes on.
Through(Op(_, _), base, seq) ==
    LET after[n \in 0..Len(seq)] ==
          IF n = 0 THEN base
          ELSE CHOOSE next \in {Op(before, seq[n]) : before \in {after[n - 1]}} : TRUE
    IN  after[Len(seq)]

\* By sixteen bytes, which keeps TLC's recursion shallow.
Chunks(text) ==
    [k \in 1..((Len(text) + 15) \div 16) |->
        SubSeq(text, 16 * k - 15, Min({16 * k, Len(text)}))]

CRC16(text) ==
    Through(LAMBDA crc, chunk : Through(Fed, crc, chunk), 0..15, Chunks(text))

HexDigit(v) == IF v < 10 THEN 48 + v ELSE 55 + v

checksum(text) ==
    LET crc == CRC16(text)
        Bit(b, weight) == IF b \in crc THEN weight ELSE 0
        Nibble(n) == Bit(4 * n + 3, 8) + Bit(4 * n + 2, 4) + Bit(4 * n + 1, 2) + Bit(4 * n, 1)
    IN  <<HexDigit(Nibble(3)), HexDigit(Nibble(2)), HexDigit(Nibble(1)), HexDigit(Nibble(0))>>

-----------------------------------------------------------------------------
(***************************************************************************)
(* brcode.go.                                                              *)
(***************************************************************************)
GUI == Times(14, 71)
DefaultMerchantName == Times(11, 80)
DefaultMerchantCity == Times(9, 83)
NoTxID == <<42, 42, 42>>
CRCHeader == <<54, 51, 48, 52>>

\* mutant: the description is cut at the byte
CutAtByte(description) == SubSeq(description, 1, Min({Len(description), 72}))

\* On a rune boundary, back from the cap.
Cut(description) ==
    IF Len(description) <= 72 THEN description
    ELSE SubSeq(description, 1,
                Max({0} \cup {n \in 1..72 : RuneStart(description[n + 1])}))

merchantAccount(r) ==
    <<TLV(0, GUI), TLV(1, r.key)>>
    \o (IF r.description = <<>> THEN <<>> ELSE <<TLV(2, Cut(r.description))>>)

additionalData(r) ==
    <<TLV(5, IF r.txid = <<>> \/ Len(r.txid) > 25 THEN NoTxID ELSE r.txid)>>

Upper(c) == IF c \in 97..122 THEN c - 32 ELSE c

\* Two of the letters the replacer knows: A with a tilde and C with a cedilla.
Unaccented(c) == CASE c \in {195, 227} -> 65 [] c \in {199, 231} -> 67 [] OTHER -> Upper(c)

TrimRight(text) ==
    SubSeq(text, 1, Max({0} \cup {i \in DOMAIN text : text[i] # Space}))

Kept(out, c) ==
    IF \/ c \in Letter \cup Digit
       \/ c = Space /\ out # <<>> /\ Last(out) # Space
    THEN Append(out, c) ELSE out

Collapsed(text) == Through(Kept, <<>>, [i \in DOMAIN text |-> Unaccented(text[i])])

sanitize(text, fallback, max) ==
    LET kept == TrimRight(Collapsed(text))
        out == IF kept = <<>> THEN fallback ELSE kept
    IN  TrimRight(SubSeq(out, 1, Min({max, Len(out)})))

Amount(r) == FormatAmount(ParseAmount(r.original))

Fields(r) ==
    << TLV(0, <<48, 49>>), TLV(1, <<49, 50>>), TLV(26, EncodeAll(merchantAccount(r))),
       TLV(52, Times(4, 48)), TLV(53, <<57, 56, 54>>), TLV(54, Amount(r)),
       TLV(58, <<66, 82>>),
       TLV(59, sanitize(r.name, DefaultMerchantName, 25)),
       TLV(60, sanitize(r.city, DefaultMerchantCity, 15)),
       TLV(62, EncodeAll(additionalData(r))) >>

Renders(r) ==
    /\ r.key # <<>> /\ Len(Amount(r)) <= 13
    /\ Encodes(merchantAccount(r)) /\ Encodes(Fields(r))

Sealed(body) == body \o CRCHeader \o checksum(body \o CRCHeader)

Payload(r) == Sealed(EncodeAll(Fields(r)))

\* mutant: only the CRC field is looked at, never recomputed
VerifyShape(payload) ==
    Len(payload) >= 8 /\ SubSeq(payload, Len(payload) - 7, Len(payload) - 4) = CRCHeader

Verify(payload) ==
    LET n == Len(payload)
        head == SubSeq(payload, 1, n - 4)
        tail == SubSeq(payload, n - 3, n)
    IN  /\ n >= 8
        /\ SubSeq(payload, n - 7, n - 4) = CRCHeader
        /\ [i \in 1..4 |-> Upper(tail[i])] = checksum(head)

-----------------------------------------------------------------------------
(***************************************************************************)
(* buildCharge: what it lets through, and the code it stores.              *)
(***************************************************************************)
\* mutant: one character too many
ChaveTooLong(chave) == Len(chave) \in 1..78

\* ValidateChave.
ChaveValid(chave) == Len(chave) \in 1..77

VARIABLES
    request,
    issued,     \* the code as it was built
    code        \* the code as it is read

codecVars == <<request, issued, code>>

Init ==
    /\ request \in {r \in Request : IsAmount(r.original) /\ ChaveValid(r.key)}
    /\ issued = IF Renders(request) THEN Payload(request) ELSE <<>>
    /\ code = issued

\* One character is read as another: any other.
Smudge ==
    /\ code = issued
    /\ \E i \in DOMAIN code : \E c \in Byte \ {code[i]} : code' = [code EXCEPT ![i] = c]
    /\ UNCHANGED <<request, issued>>

Swap ==
    /\ code = issued
    /\ \E i \in 1..(Len(code) - 1) :
          code' = [code EXCEPT ![i] = code[i + 1], ![i + 1] = code[i]]
    /\ UNCHANGED <<request, issued>>

Next == Smudge \/ Swap

Spec == Init /\ [][Next]_codecVars

-----------------------------------------------------------------------------
Clean(text, max) ==
    /\ Len(text) \in 1..max
    /\ \A i \in DOMAIN text : text[i] \in Letter \cup Digit \cup {Space}
    /\ text[1] # Space /\ Last(text) # Space
    /\ \A i \in 1..(Len(text) - 1) : text[i] # Space \/ text[i + 1] # Space

\* Whatever buildCharge lets through gets a code, the widest amount and the longest
\* key with it, and the code reads back as what it was built from: the key, the same
\* cents, a txid or none, names a reader accepts, a description cut between runes.
\* (buildCharge gives none: that part is about what emv does for any caller.)
CodeCarries ==
    request.description = <<>> \/ issued # <<>> =>
        LET outer == Parse(issued)
            account == Parse(Find(outer.fields, 26))
            additional == Parse(Find(outer.fields, 62))
        IN  /\ issued # <<>> /\ outer.ok /\ account.ok /\ additional.ok
            /\ Find(account.fields, 1) = request.key
            /\ IsAmount(Find(outer.fields, 54))
            /\ ParseAmount(Find(outer.fields, 54)) = ParseAmount(request.original)
            /\ Find(additional.fields, 5) \in {request.txid, NoTxID}
            /\ Len(Find(additional.fields, 5)) \in 1..25
            /\ Clean(Find(outer.fields, 59), 25) /\ Clean(Find(outer.fields, 60), 15)
            /\ Has(account.fields, 2) =>
                  LET d == Find(account.fields, 2) IN
                  /\ Len(d) <= 72 /\ IsPrefix(d, request.description)
                  /\ d # request.description => RuneStart(request.description[Len(d) + 1])

\* The code as issued verifies; with one character changed or two neighbours swapped
\* it does not, unless only the case of its CRC differs.
DamageShows ==
    issued # <<>> =>
        (Verify(code) <=>
            LET n == Len(issued) IN
            /\ SubSeq(code, 1, n - 4) = SubSeq(issued, 1, n - 4)
            /\ \A i \in (n - 3)..n : Upper(code[i]) = Upper(issued[i]))
=============================================================================
