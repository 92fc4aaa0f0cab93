-------------------------------- MODULE Blob --------------------------------
(***************************************************************************)
(* Blobs: the byte strings the manifest writers make and the parsers read. *)
(* A byte is a number, <<"byte", x>>, or one byte of a thing whose bytes   *)
(* nobody computes with: a key, a name or a hash, <<kind, what, k>>.       *)
(* Hashing is injective here: the hash of some bytes names those bytes.    *)
(***************************************************************************)
EXTENDS Integers, Sequences, SequencesExt

Byte(x) == <<"byte", x>>
Nul     == Byte(0)
Nuls(n) == [k \in 1..n |-> Nul]

(* The low n bytes of v, most significant first; v is below 2^31. *)
BE(v, n) == [k \in 1..n |-> IF n - k > 3 THEN Nul ELSE Byte((v \div 256^(n - k)) % 256)]
LE(v, n) == Reverse(BE(v, n))

(* 16 bytes of MD5 in the code. *)
Key(v, n)      == [k \in 1..n |-> <<"key", v, k>>]
Name(v, n)     == [k \in 1..n |-> <<"name", v, k>>]
Hash(bytes, n) == [k \in 1..n |-> <<"hash", bytes, k>>]

------------------------------------------------------------------------------
(* data[off:off+n]; offsets start at 0, as in the code. *)
Slice(data, off, n) == SubSeq(data, off + 1, off + n)
From(data, off)     == SubSeq(data, off + 1, Len(data))

(* The number in some bytes, capped: what is 2^22 or more, or holds bytes   *)
(* that are no numbers, is read as Huge.                                    *)
Huge == 2^22
NumBE(bytes) ==
  LET val[k \in 0..Len(bytes)] ==
        IF k = 0 THEN 0
        ELSE IF bytes[k][1] # "byte" \/ val[k - 1] >= 2^14 THEN Huge
        ELSE val[k - 1] * 256 + bytes[k][2]
  IN val[Len(bytes)]
NumLE(bytes) == NumBE(Reverse(bytes))

GetBE(data, off, n) == NumBE(Slice(data, off, n))
GetLE(data, off, n) == NumLE(Slice(data, off, n))

(* bytes.IndexByte(data[off:], 0), relative to off; -1 when there is none.   *)
NulAt(data, off) ==
  LET ends == {i \in off..(Len(data) - 1) : data[i + 1] = Nul}
  IN IF ends = {} THEN -1 ELSE (CHOOSE i \in ends : \A j \in ends : i <= j) - off

Pad(bytes, n) == bytes \o Nuls(n - Len(bytes))

(* A parser ends with a value, with an error, or with an index out of range *)
(* that nothing recovers.                                                   *)
Ok(value)  == [status |-> "ok", value |-> value]
Error      == [status |-> "error"]
Panic      == [status |-> "panic"]
==============================================================================
