------------------------------- MODULE Bencode ------------------------------
(***************************************************************************)
(* The bencode format as crate bittorrent/bencode reads and writes it: the *)
(* decoder of `Value`, strict and lenient, with the raw bytes its lists    *)
(* and dictionaries keep, and the encoder.  A byte is its ASCII code.  A   *)
(* value is <<"bytes", b>>, <<"int", n>>, <<"list", items, raw>> or        *)
(* <<"dict", entries, raw>> with its entries in the order of their keys    *)
(* (a `BTreeMap`); an owned value has the empty raw.                       *)
(*                                                                         *)
(* Bound: a 64-bit integer is one of -BcIntMax - 1 .. BcIntMax.            *)
(***************************************************************************)
EXTENDS Integers, SequencesExt

CONSTANTS BcIntMax     \* i64::MAX

cPlus == 43
cMinus == 45
cZero == 48
cNine == 57
cColon == 58
cDict == 100
cEnd == 101
cInt == 105
cList == 108

IsDigit(b) == b \in cZero .. cNine

\* A result is <<"ok", value, next position>> or <<"err", kind>>, or the code panics.
Ok(value, at) == <<"ok", value, at>>
Err(kind) == <<"err", kind>>
Panic == <<"panic">>
IsOk(r) == r[1] = "ok"

\* `?`: go on with the value and what follows it, or return the error.
Try(r, GoOn(_, _)) == IF IsOk(r) THEN GoOn(r[2], r[3]) ELSE r

I64 == <<0 - BcIntMax - 1, BcIntMax>>
U64 == <<0, 2 * BcIntMax + 1>>      \* also usize

-----------------------------------------------------------------------------
\* Numbers as decimal digits.

RECURSIVE Digits(_)
Digits(n) == IF n < 10 THEN <<cZero + n>> ELSE Append(Digits(n \div 10), cZero + (n % 10))

Decimal(n) == IF n < 0 THEN <<cMinus>> \o Digits(0 - n) ELSE Digits(n)

RECURSIVE DigitsValue(_)
DigitsValue(ds) ==
    IF ds = <<>> THEN 0 ELSE 10 * DigitsValue(Front(ds)) + (Last(ds) - cZero)

\* `FromStr` of an integer type with the given range: a sign (a minus only for
\* a signed type), then digits.  The number in a sequence of one, or <<>>.
Parse(text, range) ==
    LET signed == Len(text) > 1 /\ (text[1] = cPlus \/ (text[1] = cMinus /\ range[1] < 0))
        ds == IF signed THEN Tail(text) ELSE text
        n == IF signed /\ text[1] = cMinus THEN 0 - DigitsValue(ds) ELSE DigitsValue(ds)
    IN  IF ds # <<>> /\ (\A i \in 1 .. Len(ds) : IsDigit(ds[i])) /\ n \in range[1] .. range[2]
        THEN <<n>> ELSE <<>>

-----------------------------------------------------------------------------
\* The order of byte strings, and dictionaries kept in the order of their keys.

RECURSIVE KeyLess(_, _)
KeyLess(a, b) ==
    /\ b # <<>>
    /\ \/ a = <<>>
       \/ a[1] < b[1]
       \/ a[1] = b[1] /\ KeyLess(Tail(a), Tail(b))

\* `BTreeMap::insert`: an entry of the same key is replaced.
DictInsert(dict, key, value) ==
    SelectSeq(dict, LAMBDA e : KeyLess(e[1], key))
    \o << <<key, value>> >>
    \o SelectSeq(dict, LAMBDA e : KeyLess(key, e[1]))

-----------------------------------------------------------------------------
\* Decoding, from position p of s.

\* The first position from p on that holds b, or 0.
FindFrom(s, p, b) ==
    LET found == { i \in p .. Len(s) : s[i] = b }
    IN  IF found = {} THEN 0 ELSE CHOOSE i \in found : \A j \in found : i <= j

decode_byte_string(s, p) ==
    LET colon == FindFrom(s, p, cColon)
        length == Parse(SubSeq(s, p, colon - 1), U64)
    IN  IF colon = 0 THEN Err("incomplete")
        ELSE IF length = <<>> THEN Err("length")
        ELSE IF colon + length[1] > Len(s) THEN Err("incomplete")
        ELSE Ok(SubSeq(s, colon + 1, colon + length[1]), colon + length[1] + 1)

DecodeInteger(s, p) ==
    LET end == FindFrom(s, p, cEnd)
        int == Parse(SubSeq(s, p, end - 1), I64)
    IN  IF end = 0 THEN Err("incomplete")
        ELSE IF int = <<>> THEN Err("integer")
        ELSE Ok(<<"int", int[1]>>, end + 1)

\* Strict decoding wants the keys strictly increasing.
KeyOrdered(strict, dict, key) ==
    strict => (dict = <<>> \/ KeyLess(Last(dict)[1], key))

RECURSIVE Decode(_, _, _), DecodeList(_, _, _, _), DecodeDict(_, _, _, _)

\* `Value::decode`: the value that starts at p.
Decode(strict, s, p) ==
    IF p > Len(s) THEN Err("incomplete")
    ELSE CASE IsDigit(s[p]) -> Try(decode_byte_string(s, p), LAMBDA b, q : Ok(<<"bytes", b>>, q))
           [] s[p] = cInt -> DecodeInteger(s, p + 1)
           [] s[p] = cList ->
                Try(DecodeList(strict, s, p + 1, <<>>),
                    LAMBDA list, q : Ok(<<"list", list, SubSeq(s, p, q - 1)>>, q))
           [] s[p] = cDict ->
                Try(DecodeDict(strict, s, p + 1, <<>>),
                    LAMBDA dict, q : Ok(<<"dict", dict, SubSeq(s, p, q - 1)>>, q))
           [] OTHER -> Err("type")

DecodeList(strict, s, p, list) ==
    IF p > Len(s) THEN Err("incomplete")
    ELSE IF s[p] = cEnd THEN Ok(list, p + 1)
    ELSE Try(Decode(strict, s, p), LAMBDA item, q : DecodeList(strict, s, q, Append(list, item)))

DecodeDict(strict, s, p, dict) ==
    IF p > Len(s) THEN Err("incomplete")
    ELSE IF s[p] = cEnd THEN Ok(dict, p + 1)
    ELSE Try(decode_byte_string(s, p), LAMBDA key, q :
         Try(Decode(strict, s, q), LAMBDA value, rest :
             IF KeyOrdered(strict, dict, key)
             THEN DecodeDict(strict, s, rest, DictInsert(dict, key, value))
             ELSE Err("order")))

\* `TryFrom<&[u8]>`: the whole buffer is one value; a lenient one may be longer.
TryFrom(strict, s) ==
    LET r == Decode(strict, s, 1)
    IN  IF IsOk(r) /\ strict /\ r[3] <= Len(s) THEN Err("trailing") ELSE r

\* `borrow::Value::to_owned`: the raw bytes are dropped.
RECURSIVE ToOwned(_)
ToOwned(v) ==
    CASE v[1] = "list" -> <<"list", [i \in 1 .. Len(v[2]) |-> ToOwned(v[2][i])], <<>> >>
      [] v[1] = "dict" -> <<"dict", [i \in 1 .. Len(v[2]) |-> <<v[2][i][1], ToOwned(v[2][i][2])>>], <<>> >>
      [] OTHER -> v

-----------------------------------------------------------------------------
\* Encoding.

Flat(seqs) == FoldRight(LAMBDA x, acc : x \o acc, seqs, <<>>)

EncodeBytes(b) == Decimal(Len(b)) \o <<cColon>> \o b

EncodeInt(n) == <<cInt>> \o Decimal(n) \o <<cEnd>>

RECURSIVE Encode(_)
Encode(v) ==
    CASE v[1] = "bytes" -> EncodeBytes(v[2])
      [] v[1] = "int" -> EncodeInt(v[2])
      [] v[1] = "list" -> <<cList>> \o Flat([i \in 1 .. Len(v[2]) |-> Encode(v[2][i])]) \o <<cEnd>>
      [] v[1] = "dict" ->
           <<cDict>>
           \o Flat([i \in 1 .. Len(v[2]) |-> EncodeBytes(v[2][i][1]) \o Encode(v[2][i][2])])
           \o <<cEnd>>

-----------------------------------------------------------------------------
(***************************************************************************)
(* Typed values as bencode: the serializers and deserializers of crate     *)
(* bt/bencode (straight to and from bytes through a `Buf`, a slice or an   *)
(* `io::Read`, and to and from `Value`) and those of bittorrent/bencode    *)
(* (to and from its `Value`).                                              *)
(*                                                                         *)
(* A type is <<"any">>, <<"bool">>, <<"int", range>>, <<"char">>,          *)
(* <<"bytes">>, <<"option", T>>, <<"unit">>, <<"seq", T>>, <<"tuple", Ts>>, *)
(* <<"map", T>>, <<"struct", fields>>, <<"enum", variants>> or             *)
(* <<"raw", T>> (`WithRaw`); a field is <<name, T>>, a variant <<name, T>> *)
(* or <<name, <<>>>> for a unit variant.  The state is the input received  *)
(* so far: either the bytes of one serialized value, or any bytes at all.  *)
(*                                                                         *)
(* Bounds: BcBuf is the integer buffer's size, BcLimit the longest byte    *)
(* string an `io::Read` gives, BcMaxLen the longest free input, of bytes   *)
(* of BcAlphabet; BcCases are the serialized values, with their types.     *)
(***************************************************************************)

CONSTANTS
    BcBuf,          \* INTEGER_BUF_SIZE
    BcLimit,        \* BYTE_STRING_SIZE_LIMIT
    BcAlphabet,
    BcMaxLen,
    BcCases

VARIABLES
    bcCase,         \* <<type, value>> that is being received, or <<>>
    bcInput         \* the bytes received

bencodeVars == <<bcCase, bcInput>>

\* One or two bytes of UTF-8.
Utf8(ch) == IF ch < 128 THEN <<ch>> ELSE <<192 + (ch \div 64), 128 + (ch % 64)>>

\* `visit_char_bytes`: the bytes of exactly one character.
CharOf(b) ==
    IF Len(b) = 1 /\ b[1] < 128 THEN <<b[1]>>
    ELSE IF Len(b) = 2 /\ b[1] \in 194 .. 223 /\ b[2] \in 128 .. 191
    THEN <<64 * (b[1] - 192) + (b[2] - 128)>> ELSE <<>>

FieldsOf(T) == [i \in 1 .. Len(T[2]) |-> T[2][i][2]]
NamesOf(T) == { T[2][i][1] : i \in 1 .. Len(T[2]) }
Known(T, name) == T[2][CHOOSE i \in 1 .. Len(T[2]) : T[2][i][1] = name][2]

-----------------------------------------------------------------------------
\* Readers.  c is [reader, strict, s]; r is [at, log]: the next position, and
\* the bytes an `OwnedTee` around the reader has collected.

ReadU8(c, r) ==
    IF r.at > Len(c.s) THEN Err("incomplete")
    ELSE <<"ok", c.s[r.at], [at |-> r.at + 1, log |-> Append(r.log, c.s[r.at])]>>

\* The bytes before position end, which holds the delimiter.
UpTo(c, r, end) ==
    <<"ok", SubSeq(c.s, r.at, end - 1), [at |-> end + 1, log |-> r.log \o SubSeq(c.s, r.at, end)]>>

\* `Buf` and `io::Read`: byte by byte into the room of n bytes, and one more
\* that must be the delimiter, at position end if it is that one.
RECURSIVE ReadUntilByByte(_, _, _, _, _)
ReadUntilByByte(c, r, end, delimiter, n) ==
    IF end > Len(c.s) THEN Err("incomplete")
    ELSE IF c.s[end] = delimiter THEN UpTo(c, r, end)
    ELSE IF n = 0 THEN Err("buffer")
    ELSE ReadUntilByByte(c, r, end + 1, delimiter, n - 1)

\* A wrong variant of ReadUntilInSlice that looks at n bytes only.
ReadUntilShort(c, r, end, n) ==
    IF end \in r.at .. r.at + n - 1 THEN UpTo(c, r, end)
    ELSE IF Len(c.s) - r.at + 1 > n THEN Err("buffer") ELSE Err("incomplete")

\* A slice: the delimiter, first at position end, among the next n + 1 bytes.
ReadUntilInSlice(c, r, end, n) ==
    IF end \in r.at .. r.at + n THEN UpTo(c, r, end)
    ELSE IF Len(c.s) - r.at + 1 > n THEN Err("buffer") ELSE Err("incomplete")

ReadUntil(c, r, delimiter, n) ==
    IF c.reader = "slice" THEN ReadUntilInSlice(c, r, FindFrom(c.s, r.at, delimiter), n)
    ELSE ReadUntilByByte(c, r, r.at, delimiter, n)

ReadBytes(c, r, size) ==
    IF c.reader = "io" /\ size > BcLimit THEN Err("limit")
    ELSE IF r.at + size - 1 > Len(c.s) THEN Err("incomplete")
    ELSE LET b == SubSeq(c.s, r.at, r.at + size - 1)
         IN  <<"ok", b, [at |-> r.at + size, log |-> r.log \o b]>>

\* `Strictness::ensure_integer`: a sign and digits; strictly, no leading zero
\* and no negative zero.
WellFormed(strict, text) ==
    LET ds == IF text # <<>> /\ text[1] = cMinus THEN Tail(text) ELSE text
    IN  /\ ds # <<>>
        /\ \A i \in 1 .. Len(ds) : IsDigit(ds[i])
        /\ strict => (ds[1] # cZero \/ text = <<cZero>>)

\* A wrong variant of ParseInteger that skips the check of the form.
ParseIntegerAny(strict, text, range, r) ==
    LET n == Parse(text, range)
    IN  IF n = <<>> THEN Err("overflow") ELSE <<"ok", n[1], r>>

ParseInteger(strict, text, range, r) ==
    LET n == Parse(text, range)
    IN  IF ~WellFormed(strict, text) THEN Err("form")
        ELSE IF n = <<>> THEN Err("overflow") ELSE <<"ok", n[1], r>>

read_integer(c, r, range) ==
    Try(ReadUntil(c, r, cEnd, BcBuf), LAMBDA text, q : ParseInteger(c.strict, text, range, q))

read_byte_string(c, r, b0) ==
    Try(ReadUntil(c, r, cColon, BcBuf - 1), LAMBDA text, q :
    Try(ParseInteger(c.strict, <<b0>> \o text, U64, q), LAMBDA size, rest : ReadBytes(c, rest, size)))

IsToken(b) == IsDigit(b) \/ b \in {cInt, cList, cDict}

\* `deserialize_token`: st is <<"first">> at the start of the input, <<"peek", b>>
\* when the prefix was read already.
Token(c, r, st) ==
    IF st[1] = "peek" THEN <<"ok", st[2], r>>
    ELSE IF r.at > Len(c.s) /\ st[1] = "first" THEN Err("eof")
    ELSE Try(ReadU8(c, r), LAMBDA b, q : IF IsToken(b) THEN <<"ok", b, q>> ELSE Err("prefix"))

\* `deserialize_item_token`: a prefix, or the end of the list or dictionary.
ItemToken(c, r) ==
    Try(ReadU8(c, r), LAMBDA b, q : IF b = cEnd \/ IsToken(b) THEN <<"ok", b, q>> ELSE Err("prefix"))

\* `deserialize_end`.
AtEnd(c, r, value) ==
    Try(ItemToken(c, r), LAMBDA b, q : IF b = cEnd THEN <<"ok", value, q>> ELSE Err("length"))

\* The key of the next entry and then the prefix of its value, <<key, prefix>>;
\* Checked(key) is "ok" or the error of a key that is not wanted.
Entry(c, r, b, Checked(_)) ==
    IF ~IsDigit(b) THEN Err("key")
    ELSE Try(read_byte_string(c, r, b), LAMBDA key, q :
             IF Checked(key) # "ok" THEN Err(Checked(key))
             ELSE Try(ItemToken(c, q), LAMBDA vb, rest :
                      IF vb = cEnd THEN Err("value") ELSE <<"ok", <<key, vb>>, rest>>))

-----------------------------------------------------------------------------
\* Deserializing from bytes: <<"ok", value, reader>> or an error.

RECURSIVE De(_, _, _, _)

\* A list of items of one type, to its end; acc are the items so far.
DeSeq(c, T, r, acc) ==
    Try(ItemToken(c, r), LAMBDA b, q :
        IF b = cEnd THEN <<"ok", acc, q>>
        ELSE Try(De(c, T, q, <<"peek", b>>), LAMBDA v, rest : De(c, <<"items", T>>, rest, Append(acc, v))))

\* As many items as there are types, and then the end.
DeTuple(c, Ts, r, acc) ==
    IF Len(acc) = Len(Ts) THEN AtEnd(c, r, acc)
    ELSE Try(ItemToken(c, r), LAMBDA b, q :
             IF b = cEnd THEN Err("length")
             ELSE Try(De(c, Ts[Len(acc) + 1], q, <<"peek", b>>), LAMBDA v, rest :
                      De(c, <<"fields", Ts>>, rest, Append(acc, v))))

\* The type of a dictionary's value: a map's, a struct's field's, or any for a
\* field that the struct ignores.
ValueType(T, key) ==
    IF T[1] = "map" THEN T[2] ELSE IF key \in NamesOf(T) THEN Known(T, key) ELSE <<"any">>

\* Whether the next key of a dictionary may be this one, after the entries acc.
NextKey(c, T, acc, key) ==
    IF ~KeyOrdered(c.strict, acc, key) THEN "order"
    ELSE IF T[1] = "struct" /\ key \in NamesOf(T) /\ \E i \in 1 .. Len(acc) : acc[i][1] = key
    THEN "duplicate" ELSE "ok"

\* The entries as they come, in acc.
DeDict(c, T, r, acc) ==
    Try(ItemToken(c, r), LAMBDA b, q :
        IF b = cEnd THEN <<"ok", acc, q>>
        ELSE Try(Entry(c, q, b, LAMBDA key : NextKey(c, T, acc, key)), LAMBDA e, at :
             Try(De(c, ValueType(T, e[1]), at, <<"peek", e[2]>>), LAMBDA v, rest :
                 De(c, <<"entries", T>>, rest, Append(acc, <<e[1], v>>)))))

\* `BTreeMap` of the entries; the struct of the entries.
MapOf(entries) == FoldLeft(LAMBDA d, e : DictInsert(d, e[1], e[2]), <<>>, entries)

StructOf(T, entries, rest) ==
    IF \A name \in NamesOf(T) : \E i \in 1 .. Len(entries) : entries[i][1] = name
    THEN <<"ok", [f \in 1 .. Len(T[2]) |->
                    entries[CHOOSE i \in 1 .. Len(entries) : entries[i][1] = T[2][f][1]][2]], rest>>
    ELSE Err("missing")

\* A dictionary of one entry: the variant and what it carries.  The key is expected.
DeEnum(c, T, r) ==
    Try(ItemToken(c, r), LAMBDA b, q :
        IF b = cEnd THEN Panic
        ELSE Try(Entry(c, q, b, LAMBDA name : IF name \in NamesOf(T) THEN "ok" ELSE "variant"), LAMBDA e, at :
             IF Known(T, e[1]) = <<>> THEN Err("type")
             ELSE Try(De(c, Known(T, e[1]), at, <<"peek", e[2]>>), LAMBDA v, rest :
                      AtEnd(c, rest, <<e[1], v>>))))

\* A wrong variant of Raw that forgets the prefix read before the tee.
RawAfterPeek(c, r, st, end) ==
    IF c.reader = "slice" THEN SubSeq(c.s, r.at, end.at - 1)
    ELSE SubSeq(end.log, Len(r.log) + 1, Len(end.log))

\* The bytes between the tee and now: a slice's own, or those collected; the
\* prefix that was read before the tee is put back first.
Raw(c, r, st, end) ==
    LET peeked == IF st[1] = "peek" THEN 1 ELSE 0
    IN  IF c.reader = "slice" THEN SubSeq(c.s, r.at - peeked, end.at - 1)
        ELSE SubSeq(end.log, Len(r.log) - peeked + 1, Len(end.log))

\* `RawTupleDeserializer`: the value, and the bytes it was read from.
DeRaw(c, T, r, st) ==
    Try(De(c, T, r, st), LAMBDA v, rest : <<"ok", <<v, Raw(c, r, st, rest)>>, rest>>)

\* An integer, or a byte string, for the type asked for.
DeInteger(T, n, r) ==
    CASE T[1] = "any" -> <<"ok", <<"int", n>>, r>>
      [] T[1] = "int" -> <<"ok", n, r>>
      [] T[1] = "bool" -> IF n \in {0, 1} THEN <<"ok", n = 1, r>> ELSE Err("value")

DeString(T, b, r) ==
    CASE T[1] = "any" -> <<"ok", <<"bytes", b>>, r>>
      [] T[1] = "bytes" -> <<"ok", b, r>>
      [] T[1] = "char" -> IF CharOf(b) = <<>> THEN Err("value") ELSE <<"ok", CharOf(b)[1], r>>
      [] T[1] = "enum" ->
           IF b \notin NamesOf(T) THEN Err("variant")
           ELSE IF Known(T, b) # <<>> THEN Err("type") ELSE <<"ok", <<b, <<>>>>, r>>

\* A list or a dictionary for the type asked for.  A struct is either.
DeList(c, T, r) ==
    CASE T[1] = "any" ->
           Try(De(c, <<"items", T>>, r, <<>>), LAMBDA v, rest : <<"ok", <<"list", v, <<>>>>, rest>>)
      [] T[1] = "unit" -> AtEnd(c, r, <<>>)
      [] T[1] = "option" ->
           Try(ItemToken(c, r), LAMBDA b, rest :
               IF b = cEnd THEN <<"ok", <<>>, rest>> ELSE De(c, <<"fields", <<T[2]>> >>, r, <<>>))
      [] OTHER ->
           De(c, IF T[1] = "seq" THEN <<"items", T[2]>>
                 ELSE <<"fields", IF T[1] = "tuple" THEN T[2] ELSE FieldsOf(T)>>, r, <<>>)

DeDictionary(c, T, r) ==
    IF T[1] = "enum" THEN DeEnum(c, T, r)
    ELSE Try(De(c, <<"entries", IF T[1] = "any" THEN <<"map", T>> ELSE T>>, r, <<>>), LAMBDA v, rest :
             CASE T[1] = "any" -> <<"ok", <<"dict", MapOf(v), <<>>>>, rest>>
               [] T[1] = "map" -> <<"ok", MapOf(v), rest>>
               [] T[1] = "struct" -> StructOf(T, v, rest))

\* `Deserializer`: a value of type T, whose prefix is b.
DeBytes(c, T, b, r) ==
    CASE b = cInt /\ T[1] \in {"any", "int", "bool"} ->
           Try(read_integer(c, r, IF T[1] = "int" THEN T[2] ELSE I64), LAMBDA n, rest : DeInteger(T, n, rest))
      [] IsDigit(b) /\ T[1] \in {"any", "bytes", "char", "enum"} ->
           Try(read_byte_string(c, r, b), LAMBDA str, rest : DeString(T, str, rest))
      [] b = cList /\ T[1] \in {"any", "option", "unit", "seq", "tuple", "struct"} -> DeList(c, T, r)
      [] b = cDict /\ T[1] \in {"any", "map", "struct", "enum"} -> DeDictionary(c, T, r)
      [] OTHER -> Err("type")

\* A value of a type, or what is left of a list or of a dictionary.
De(c, T, r, st) ==
    CASE T[1] = "items" -> DeSeq(c, T[2], r, st)
      [] T[1] = "fields" -> DeTuple(c, T[2], r, st)
      [] T[1] = "entries" -> DeDict(c, T[2], r, st)
      [] T[1] = "raw" -> DeRaw(c, T[2], r, st)
      [] OTHER -> Try(Token(c, r, st), LAMBDA b, q : DeBytes(c, T, b, q))

\* `from_buf`, `from_slice`, `from_reader` and their strict forms.
From(reader, strict, T, s) ==
    Try(De([reader |-> reader, strict |-> strict, s |-> s], T, [at |-> 1, log |-> <<>>], <<"first">>),
        LAMBDA v, r : Ok(v, r.at))
-----------------------------------------------------------------------------
\* Serializing to bytes, and to a `Value`.

\* A wrong variant of WriteItems: the items in the order they were given.
WriteItemsUnsorted(items) ==
    <<cDict>> \o Flat([i \in 1 .. Len(items) |-> EncodeBytes(items[i][1]) \o items[i][2]]) \o <<cEnd>>

\* `sort_then_write_items`.
WriteItems(items) ==
    LET sorted == SortSeq(items, LAMBDA x, y : KeyLess(x[1], y[1]))
    IN  <<cDict>> \o Flat([i \in 1 .. Len(items) |-> EncodeBytes(sorted[i][1]) \o sorted[i][2]]) \o <<cEnd>>

RECURSIVE SerBytes(_, _)

WriteList(Ts, v) == <<cList>> \o Flat([i \in 1 .. Len(v) |-> SerBytes(Ts[i], v[i])]) \o <<cEnd>>

\* A unit variant is its name; another is a dictionary of its one entry.
WriteVariant(T, v) ==
    IF Known(T, v[1]) = <<>> THEN EncodeBytes(v[1])
    ELSE <<cDict>> \o EncodeBytes(v[1]) \o SerBytes(Known(T, v[1]), v[2]) \o <<cEnd>>

\* `RawDataSerializer`: of the pair, only the bytes are written.
WriteRaw(v) == v[2]

SerBytes(T, v) ==
    CASE T[1] = "any" -> Encode(v)
      [] T[1] = "bool" -> EncodeInt(IF v THEN 1 ELSE 0)
      [] T[1] = "int" -> EncodeInt(v)
      [] T[1] = "char" -> EncodeBytes(Utf8(v))
      [] T[1] = "bytes" -> EncodeBytes(v)
      [] T[1] \in {"option", "seq"} -> WriteList([i \in 1 .. Len(v) |-> T[2]], v)
      [] T[1] = "unit" -> WriteList(<<>>, v)
      [] T[1] = "tuple" -> WriteList(T[2], v)
      [] T[1] = "map" -> WriteItems([i \in 1 .. Len(v) |-> <<v[i][1], SerBytes(T[2], v[i][2])>>])
      [] T[1] = "struct" -> WriteItems([i \in 1 .. Len(v) |-> <<T[2][i][1], SerBytes(T[2][i][2], v[i])>>])
      [] T[1] = "enum" -> WriteVariant(T, v)
      [] T[1] = "raw" -> WriteRaw(v)

\* An integer that is not of 64 bits is an error, of the whole value too.
IntValue(n) == IF n \in I64[1] .. I64[2] THEN <<"int", n>> ELSE Err("overflow")

RECURSIVE Broken(_)
Broken(v) ==
    CASE v[1] = "err" -> TRUE
      [] v[1] = "list" -> \E i \in 1 .. Len(v[2]) : Broken(v[2][i])
      [] v[1] = "dict" -> \E i \in 1 .. Len(v[2]) : Broken(v[2][i][2])
      [] OTHER -> FALSE

RECURSIVE SerValue(_, _, _)

\* `ListSerializer`.
ListValue(crate, Ts, v) == <<"list", [i \in 1 .. Len(v) |-> SerValue(crate, Ts[i], v[i])], <<>>>>

\* `DictionarySerializer`: keys and values, inserted one by one.
DictValue(crate, keys, Ts, v) ==
    <<"dict", MapOf([i \in 1 .. Len(keys) |-> <<keys[i], SerValue(crate, Ts[i], v[i])>>]), <<>>>>

\* `serialize_variant`.
VariantValue(crate, T, v) ==
    IF Known(T, v[1]) = <<>> THEN <<"bytes", v[1]>>
    ELSE DictValue(crate, <<v[1]>>, <<Known(T, v[1])>>, <<v[2]>>)

\* bt writes a character as its UTF-8 string, bittorrent as the number that the
\* UTF-8 bytes make, the first the lowest: a u32, which the bound leaves alone.
CharValue(crate, ch) ==
    IF crate = "bt" THEN <<"bytes", Utf8(ch)>>
    ELSE <<"int", FoldRight(LAMBDA b, n : 256 * n + b, Utf8(ch), 0)>>

\* `RawValueSerializer`: of the pair, only the value.
RawValue(crate, T, v) == SerValue(crate, T[2], v[1])

\* `Serializer` of a `Value`, of either crate.
SerValue(crate, T, v) ==
    CASE T[1] = "any" -> v
      [] T[1] = "bool" -> IntValue(IF v THEN 1 ELSE 0)
      [] T[1] = "int" -> IntValue(v)
      [] T[1] = "char" -> CharValue(crate, v)
      [] T[1] = "bytes" -> <<"bytes", v>>
      [] T[1] \in {"option", "seq"} -> ListValue(crate, [i \in 1 .. Len(v) |-> T[2]], v)
      [] T[1] = "unit" -> ListValue(crate, <<>>, v)
      [] T[1] = "tuple" -> ListValue(crate, T[2], v)
      [] T[1] = "map" ->
           DictValue(crate, [i \in 1 .. Len(v) |-> v[i][1]], [i \in 1 .. Len(v) |-> T[2]],
                     [i \in 1 .. Len(v) |-> v[i][2]])
      [] T[1] = "struct" -> DictValue(crate, [i \in 1 .. Len(v) |-> T[2][i][1]], FieldsOf(T), v)
      [] T[1] = "enum" -> VariantValue(crate, T, v)
      [] T[1] = "raw" -> RawValue(crate, T, v)

to_value(T, v) == SerValue("bt", T, v)
OlderValue(T, v) == SerValue("bittorrent", T, v)

-----------------------------------------------------------------------------
\* Deserializing from a `Value`.

\* All of them, or the first error.
Collect(results) ==
    LET bad == { i \in 1 .. Len(results) : ~IsOk(results[i]) }
    IN  IF bad = {} THEN Ok([i \in 1 .. Len(results) |-> results[i][2]], 0)
        ELSE results[CHOOSE i \in bad : \A j \in bad : i <= j]

RECURSIVE DeValue(_, _, _)

\* `ListDeserializer` for as many items as there are types: bt wants no others,
\* bittorrent does not look.
DeItems(crate, Ts, list) ==
    IF Len(list) < Len(Ts) \/ (crate = "bt" /\ Len(list) > Len(Ts)) THEN Err("length")
    ELSE Collect([i \in 1 .. Len(Ts) |-> DeValue(crate, Ts[i], list[i])])

\* `DictionaryDeserializer`: each key with its value.
DeEntries(crate, T, dict) ==
    LET values == Collect([i \in 1 .. Len(dict) |-> DeValue(crate, ValueType(T, dict[i][1]), dict[i][2])])
    IN  IF IsOk(values) THEN Ok([i \in 1 .. Len(dict) |-> <<dict[i][1], values[2][i]>>], 0) ELSE values

\* `EnumDeserializer`: the name alone, or a dictionary of one entry.
DeVariant(crate, T, v) ==
    IF v[1] = "bytes"
    THEN IF v[2] \in NamesOf(T) /\ Known(T, v[2]) = <<>> THEN Ok(<<v[2], <<>>>>, 0) ELSE Err("variant")
    ELSE IF Len(v[2]) # 1 THEN Err("length")
    ELSE IF v[2][1][1] \notin NamesOf(T) THEN Err("variant")
    ELSE IF Known(T, v[2][1][1]) = <<>> THEN IF crate = "bt" THEN Err("type") ELSE Panic
    ELSE LET x == DeValue(crate, Known(T, v[2][1][1]), v[2][1][2])
         IN  IF IsOk(x) THEN Ok(<<v[2][1][1], x[2]>>, 0) ELSE x

\* `Deserializer for Value`, of either crate: bittorrent takes a struct from a
\* dictionary only.
DeValue(crate, T, v) ==
    CASE T[1] = "any" -> Ok(v, 0)
      [] T[1] = "bool" /\ v[1] = "int" -> IF v[2] \in {0, 1} THEN Ok(v[2] = 1, 0) ELSE Err("value")
      [] T[1] = "int" /\ v[1] = "int" -> IF v[2] \in T[2][1] .. T[2][2] THEN Ok(v[2], 0) ELSE Err("overflow")
      [] T[1] = "char" /\ crate = "bittorrent" /\ v[1] = "int" -> IF v[2] >= 0 THEN Ok(v[2], 0) ELSE Err("overflow")
      [] T[1] = "char" /\ crate = "bt" /\ v[1] = "bytes" ->
           IF CharOf(v[2]) = <<>> THEN Err("value") ELSE Ok(CharOf(v[2])[1], 0)
      [] T[1] = "bytes" /\ v[1] = "bytes" -> Ok(v[2], 0)
      [] T[1] = "option" /\ v[1] = "list" ->
           IF Len(v[2]) > 1 THEN Err("length") ELSE DeItems(crate, [i \in 1 .. Len(v[2]) |-> T[2]], v[2])
      [] T[1] = "unit" /\ v[1] = "list" -> IF v[2] = <<>> THEN Ok(<<>>, 0) ELSE Err("length")
      [] T[1] = "seq" /\ v[1] = "list" -> DeItems(crate, [i \in 1 .. Len(v[2]) |-> T[2]], v[2])
      [] T[1] = "tuple" /\ v[1] = "list" -> DeItems(crate, T[2], v[2])
      [] T[1] = "map" /\ v[1] = "dict" -> DeEntries(crate, T, v[2])
      [] T[1] = "struct" /\ v[1] = "dict" ->
           LET entries == DeEntries(crate, T, v[2])
           IN  IF IsOk(entries) THEN StructOf(T, entries[2], 0) ELSE entries
      [] T[1] = "struct" /\ v[1] = "list" /\ crate = "bt" -> DeItems(crate, FieldsOf(T), v[2])
      [] T[1] = "enum" /\ v[1] \in {"bytes", "dict"} -> DeVariant(crate, T, v)
      [] OTHER -> Err("type")

from_value(T, v) == DeValue("bt", T, v)
FromOlderValue(T, v) == DeValue("bittorrent", T, v)

-----------------------------------------------------------------------------
Whole == SerBytes(bcCase[1], bcCase[2])

BcPending(r) == r = Err("incomplete") \/ r = Err("eof")

BencodeInit ==
    /\ bcCase \in { <<>> } \cup BcCases
    /\ bcInput = <<>>

\* A byte arrives: the next of the serialized value, or any, until one byte past
\* what every decoder takes as a whole value or rejects.
Arrive(b) ==
    /\ IF bcCase # <<>>
       THEN Len(bcInput) < Len(Whole) /\ b = Whole[Len(bcInput) + 1]
       ELSE /\ Len(bcInput) < BcMaxLen
            /\ \/ bcInput = <<>>
               \/ BcPending(Decode(FALSE, Front(bcInput), 1))
    /\ bcInput' = Append(bcInput, b)
    /\ UNCHANGED bcCase

BencodeNext == \E b \in IF bcCase # <<>> THEN ToSet(Whole) ELSE BcAlphabet : Arrive(b)
-----------------------------------------------------------------------------
Readers == {"buf", "slice", "io"}

Types == { <<"any">> } \cup { case[1] : case \in BcCases }

RECURSIVE HasRaw(_)
HasRaw(T) ==
    CASE T[1] = "raw" -> TRUE
      [] T[1] = "struct" -> \E i \in 1 .. Len(T[2]) : HasRaw(T[2][i][2])
      [] OTHER -> FALSE

\* The three readers give the same value, or the same error, but for the limit
\* that only an `io::Read` has.
ReadersAgree ==
    \A T \in Types, strict \in BOOLEAN :
        LET r == From("buf", strict, T, bcInput)
        IN  /\ From("slice", strict, T, bcInput) = r
            /\ From("io", strict, T, bcInput) \in {r, Err("limit")}

\* What bt's strict decoder takes is the one encoding of its value; both crates
\* and the lenient decoder read the same value from it.
StrictIsCanonical ==
    LET r == From("slice", TRUE, <<"any">>, bcInput)
        o == Decode(TRUE, bcInput, 1)
    IN  IsOk(r) => /\ Encode(r[2]) = SubSeq(bcInput, 1, r[3] - 1)
                   /\ From("slice", FALSE, <<"any">>, bcInput) = r
                   /\ IsOk(o) /\ ToOwned(o[2]) = r[2] /\ o[3] = r[3]

\* Decoding straight into a type, or through `Value`, gives the same value, or none.
SameThroughValue ==
    LET w == From("slice", TRUE, <<"any">>, bcInput)
    IN  IsOk(w) => \A T \in { U \in Types : ~HasRaw(U) } :
            LET direct == From("slice", TRUE, T, bcInput)
                through == from_value(T, w[2])
            IN  /\ IsOk(direct) <=> IsOk(through)
                /\ IsOk(direct) => direct[2] = through[2] /\ direct[3] = w[3]

\* The raw bytes that a list or a dictionary keeps decode to it again.
RECURSIVE RawsHold(_, _)
RawsHold(strict, v) ==
    /\ v[1] \in {"list", "dict"} => TryFrom(strict, v[3]) = Ok(v, Len(v[3]) + 1)
    /\ v[1] = "list" => \A i \in 1 .. Len(v[2]) : RawsHold(strict, v[2][i])
    /\ v[1] = "dict" => \A i \in 1 .. Len(v[2]) : RawsHold(strict, v[2][i][2])

\* A serialized value is read back by every reader, and by way of `Value` in both
\* crates; the first bytes of it are never taken for a value or an error.  A character
\* that is not ASCII comes back from the older crate as another one: it writes the
\* bytes of UTF-8 (ser.rs:115) and reads a code point (de.rs:343).
RoundTrips ==
    LET T == bcCase[1]
        v == bcCase[2]
        value == to_value(T, v)
        older == OlderValue(T, v)
    IN  IF Len(bcInput) < Len(Whole)
        THEN \A reader \in Readers, strict \in BOOLEAN : BcPending(From(reader, strict, T, bcInput))
        ELSE /\ \A reader \in Readers, strict \in BOOLEAN :
                   From(reader, strict, T, bcInput) = Ok(v, Len(bcInput) + 1)
             /\ ~Broken(value) => /\ Encode(value) = bcInput
                                  /\ HasRaw(T) \/ from_value(T, value) = Ok(v, 0)
             /\ IF T[1] = "char" /\ v > 127
                THEN IsOk(FromOlderValue(T, older)) /\ FromOlderValue(T, older)[2] # v
                ELSE ~Broken(older) /\ ~HasRaw(T) =>
                       /\ FromOlderValue(T, older) = Ok(v, 0)
                       /\ LET r == TryFrom(TRUE, Encode(older)) IN IsOk(r) /\ ToOwned(r[2]) = older

\* An enum that is read from an empty dictionary panics, in every reader (enum_.rs:37),
\* where `Value` gives an error; no other input makes a reader panic.
PanicsOnEmptyEnum ==
    \A T \in Types, reader \in Readers, strict \in BOOLEAN :
        From(reader, strict, T, bcInput) = Panic
          <=> T[1] = "enum" /\ IsPrefix(<<cDict, cEnd>>, bcInput)

DecodingHolds ==
    /\ ReadersAgree
    /\ StrictIsCanonical
    /\ SameThroughValue
    /\ PanicsOnEmptyEnum
    /\ \A strict \in BOOLEAN :
          LET o == Decode(strict, bcInput, 1) IN IsOk(o) => RawsHold(strict, o[2])
    /\ bcCase # <<>> => RoundTrips

\* Once the bytes received are a value or an error, the last byte received did
\* not change it.
NothingIsTakenBack ==
    bcInput # <<>> => \A strict \in BOOLEAN :
        /\ LET r == Decode(strict, Front(bcInput), 1)
           IN  ~BcPending(r) => Decode(strict, bcInput, 1) = r
        /\ \A reader \in Readers :
              LET r == From(reader, strict, <<"any">>, Front(bcInput))
              IN  ~BcPending(r) => From(reader, strict, <<"any">>, bcInput) = r

\* Bencode is read as it is written (bt/bencode and bittorrent/bencode): but for the
\* older crate's characters, a serialized value is read back by every reader, strictly
\* and leniently, whole and only when whole; only an empty enum panics; `Buf`, slice and `io::Read` agree on every input; what
\* strict decoding takes is canonical, so hashing the bytes is hashing the value;
\* decoding directly and through `Value` agree; raw bytes decode to what keeps
\* them; and a verdict is never changed by bytes that arrive later.
BencodeIsSound == DecodingHolds /\ NothingIsTakenBack
=============================================================================
