------------------------------ MODULE FarmHash ------------------------------
(***************************************************************************)
(* FarmHash (CPU_simulate/src/farm.cpp), the hash of every simulated data  *)
(* structure.  The arithmetic on 32 and 64 bit words is abstracted away;   *)
(* what is kept is the control that depends on the length: which branch,   *)
(* how many rounds of which loop, and which bytes of the input each fetch  *)
(* reads.  An operator X(s, len) stands for the function X called with a   *)
(* pointer to offset s of the input and length len, and is the set of the  *)
(* offsets it reads.  The prefix na, uo, xo, te, nt, mk, su, sa or cc of a *)
(* name is the last part of its namespace farmhashna, ....                 *)
(***************************************************************************)
EXTENDS Integers

CONSTANT MaxLength        \* longest input that is hashed

VARIABLES build,          \* which instructions the compiler may use
          entry,          \* the public function that is called
          length          \* the length it is called with

farmVars == <<build, entry, length>>

\* Compilers that have SSE4.2 have SSE4.1; AES-NI is a separate option.
Builds == {b \in [sse41 : BOOLEAN, sse42 : BOOLEAN, aesni : BOOLEAN, x86_64 : BOOLEAN] : b.sse42 => b.sse41}

Fetch32(p) == p .. p + 3
Fetch64(p) == p .. p + 7
Fetch128(p) == p .. p + 15

\* A stub of a namespace whose instructions are missing writes to address
\* len % 17: an offset no input has.
Misconfigured == {-1}

(***************************************************************************)
(* farmhashna                                                              *)
(***************************************************************************)
naHashLen0to16(s, len) ==
    CASE len >= 8 -> Fetch64(s) \cup Fetch64(s + len - 8)
      [] len \in 4 .. 7 -> Fetch32(s) \cup Fetch32(s + len - 4)
      [] len \in 1 .. 3 -> {s, s + (len \div 2), s + len - 1}
      [] OTHER -> {}

naHashLen17to32(s, len) ==
    UNION {Fetch64(p) : p \in {s, s + 8, s + len - 8, s + len - 16}}

naWeakHashLen32WithSeeds(s) == UNION {Fetch64(p) : p \in {s, s + 8, s + 16, s + 24}}

naHashLen33to64(s, len) ==
    UNION {Fetch64(p) : p \in {s, s + 8, s + len - 8, s + len - 16, s + 16, s + 24, s + len - 32, s + len - 24}}

\* The body of the loop over 64 byte blocks, and of the last block.
naBlock(s) ==
    Fetch64(s + 8) \cup Fetch64(s + 48) \cup Fetch64(s + 40) \cup Fetch64(s + 16)
    \cup naWeakHashLen32WithSeeds(s) \cup naWeakHashLen32WithSeeds(s + 32)

\* The rounds run from s to end, then once more over the last 64 bytes.
End64(s, len) == s + ((len - 1) \div 64) * 64
Last64_ahead(s, len) == End64(s, len) + ((len - 1) % 64) - 62
Last64(s, len) == End64(s, len) + ((len - 1) % 64) - 63

naHash64(s, len) ==
    CASE len <= 16 -> naHashLen0to16(s, len)
      [] len \in 17 .. 32 -> naHashLen17to32(s, len)
      [] len \in 33 .. 64 -> naHashLen33to64(s, len)
      [] OTHER -> Fetch64(s)
                  \cup (UNION {naBlock(s + 64 * i) : i \in 0 .. (End64(s, len) - s) \div 64 - 1})
                  \cup naBlock(Last64(s, len))

naHash64WithSeeds(s, len) == naHash64(s, len)
naHash64WithSeed(s, len) == naHash64WithSeeds(s, len)

(***************************************************************************)
(* farmhashuo and farmhashxo                                               *)
(***************************************************************************)
uoRound(s) == UNION {Fetch64(s + 8 * i) : i \in 0 .. 7}

uoHash64WithSeeds(s, len) ==
    IF len <= 64 THEN naHash64WithSeeds(s, len)
    ELSE (UNION {uoRound(s + 64 * i) : i \in 0 .. (End64(s, len) - s) \div 64 - 1})
         \cup naBlock(Last64(s, len))

uoHash64WithSeed(s, len) == IF len <= 64 THEN naHash64WithSeed(s, len) ELSE uoHash64WithSeeds(s, len)
uoHash64(s, len) == IF len <= 64 THEN naHash64(s, len) ELSE uoHash64WithSeeds(s, len)

xoH32(s, len) == UNION {Fetch64(p) : p \in {s, s + 8, s + len - 8, s + len - 16}}
xoHashLen33to64(s, len) == xoH32(s, 32) \cup xoH32(s + len - 32, 32)
xoHashLen65to96(s, len) == xoH32(s, 32) \cup xoH32(s + 32, 32) \cup xoH32(s + len - 32, 32)

xoHash64(s, len) ==
    CASE len <= 16 -> naHashLen0to16(s, len)
      [] len \in 17 .. 32 -> naHashLen17to32(s, len)
      [] len \in 33 .. 64 -> xoHashLen33to64(s, len)
      [] len \in 65 .. 96 -> xoHashLen65to96(s, len)
      [] len \in 97 .. 256 -> naHash64(s, len)
      [] OTHER -> uoHash64(s, len)

xoHash64WithSeeds(s, len) == uoHash64WithSeeds(s, len)
xoHash64WithSeed(s, len) == uoHash64WithSeed(s, len)

(***************************************************************************)
(* farmhashte and farmhashnt: SSE4.1 on x86_64                             *)
(***************************************************************************)
teRound(s) == UNION {Fetch128(s + 16 * i) : i \in 0 .. 15}
teTail(s, n) == IF n % 256 # 0 THEN xoHash64(s + n - (n % 256), n % 256) ELSE {}
teHash64Long(s, n) == (UNION {teRound(s + 256 * i) : i \in 0 .. n \div 256 - 1}) \cup teTail(s, n)

teHash64(s, len) ==
    IF ~(build.sse41 /\ build.x86_64) THEN Misconfigured
    ELSE IF len >= 512 THEN teHash64Long(s, len) ELSE xoHash64(s, len)

teHash64WithSeed(s, len) ==
    IF ~(build.sse41 /\ build.x86_64) THEN Misconfigured
    ELSE IF len >= 512 THEN teHash64Long(s, len) ELSE xoHash64WithSeed(s, len)

ntHash32(s, len) == teHash64(s, len)
ntHash32WithSeed(s, len) == teHash64WithSeed(s, len)

(***************************************************************************)
(* farmhashmk, and farmhashsu and farmhashsa built on it                   *)
(***************************************************************************)
mkHash32Len13to24(s, len) ==
    UNION {Fetch32(p) : p \in {s - 4 + len \div 2, s + 4, s + len - 8, s + len \div 2, s, s + len - 4}}
mkHash32Len0to4(s, len) == s .. s + len - 1
\* (len >> 1) & 4
mkHash32Len5to12(s, len) == Fetch32(s) \cup Fetch32(s + len - 4) \cup Fetch32(s + IF (len \div 2) % 8 >= 4 THEN 4 ELSE 0)

mkShort(s, len) ==
    CASE len <= 4 -> mkHash32Len0to4(s, len)
      [] len \in 5 .. 12 -> mkHash32Len5to12(s, len)
      [] OTHER -> mkHash32Len13to24(s, len)

\* Five words from the end, then rounds of twenty bytes from the start.
mkLast20(s, len) == UNION {Fetch32(s + len - 4 * i) : i \in 1 .. 5}
mkRound(s) == UNION {Fetch32(s + 4 * i) : i \in 0 .. 4}
mkHash32(s, len) ==
    IF len <= 24 THEN mkShort(s, len)
    ELSE mkLast20(s, len) \cup UNION {mkRound(s + 20 * i) : i \in 0 .. (len - 1) \div 20 - 1}

mkHash32WithSeed(s, len) ==
    IF len <= 24 THEN mkShort(s, len) ELSE mkHash32Len13to24(s, 24) \cup mkHash32(s + 24, len - 24)

suLen25to39(s, len) ==
    (UNION {Fetch32(s + len - 4 * i) : i \in 1 .. 5}) \cup mkHash32Len13to24(s, (len + 1) \div 2)
suLen40to79(s, len) ==
    UNION {Fetch128(p) : p \in {s, s + 16, s + (len - 15) \div 2, s + len - 32, s + len - 16}}
suChunk(s) == UNION {Fetch128(s + 16 * i) : i \in 0 .. 4}
suHash32(s, len) ==
    CASE ~(build.sse42 /\ build.aesni) -> Misconfigured
      [] OTHER -> CASE len <= 24 -> mkShort(s, len)
                    [] len \in 25 .. 39 -> suLen25to39(s, len)
                    [] len \in 40 .. 79 -> suLen40to79(s, len)
                    [] OTHER -> (UNION {suChunk(s + 80 * i) : i \in 0 .. (len - 1) \div 80 - 1}) \cup suChunk(s + len - 80)
suHash32WithSeed(s, len) ==
    IF ~(build.sse42 /\ build.aesni) THEN Misconfigured
    ELSE IF len <= 24 THEN mkShort(s, len) ELSE mkHash32Len13to24(s, 24) \cup suHash32(s + 24, len - 24)

saLen25to39(s, len) ==
    (UNION {Fetch32(s + len - 4 * i) : i \in 1 .. 5}) \cup mkHash32Len13to24(s, (len + 1) \div 2)
saLen40to79(s, len) ==
    UNION {Fetch128(p) : p \in {s, s + 16, s + (len - 15) \div 2, s + len - 32, s + len - 16}}
saChunk(s) == UNION {Fetch128(s + 16 * i) : i \in 0 .. 4}
saHash32(s, len) ==
    CASE ~build.sse42 -> Misconfigured
      [] OTHER -> CASE len <= 24 -> mkShort(s, len)
                    [] len \in 25 .. 39 -> saLen25to39(s, len)
                    [] len \in 40 .. 79 -> saLen40to79(s, len)
                    [] OTHER -> (UNION {saChunk(s + 80 * i) : i \in 0 .. (len - 1) \div 80 - 1}) \cup saChunk(s + len - 80)
saHash32WithSeed(s, len) ==
    IF ~build.sse42 THEN Misconfigured
    ELSE IF len <= 24 THEN mkShort(s, len) ELSE mkHash32Len13to24(s, 24) \cup saHash32(s + 24, len - 24)

(***************************************************************************)
(* farmhashcc                                                              *)
(***************************************************************************)
ccHash32Len13to24(s, len) ==
    UNION {Fetch32(p) : p \in {s - 4 + len \div 2, s + 4, s + len - 8, s + len \div 2, s, s + len - 4}}
ccHash32Len0to4(s, len) == s .. s + len - 1
ccHash32Len5to12(s, len) == Fetch32(s) \cup Fetch32(s + len - 4) \cup Fetch32(s + IF (len \div 2) % 8 >= 4 THEN 4 ELSE 0)
ccRound(s) == UNION {Fetch32(s + 4 * i) : i \in 0 .. 4}
ccHash32(s, len) ==
    CASE len <= 4 -> ccHash32Len0to4(s, len)
      [] len \in 5 .. 12 -> ccHash32Len5to12(s, len)
      [] len \in 13 .. 24 -> ccHash32Len13to24(s, len)
      [] OTHER -> (UNION {Fetch32(s + len - 4 * i) : i \in 1 .. 5})
                  \cup UNION {ccRound(s + 20 * i) : i \in 0 .. (len - 1) \div 20 - 1}
ccHash32WithSeed(s, len) ==
    IF len <= 24 THEN mkShort(s, len) ELSE mkHash32Len13to24(s, 24) \cup ccHash32(s + 24, len - 24)

ccHashLen0to16(s, len) ==
    CASE len >= 8 -> Fetch64(s) \cup Fetch64(s + len - 8)
      [] len \in 4 .. 7 -> Fetch32(s) \cup Fetch32(s + len - 4)
      [] len \in 1 .. 3 -> {s, s + (len \div 2), s + len - 1}
      [] OTHER -> {}

ccWeakHashLen32WithSeeds(s) == UNION {Fetch64(p) : p \in {s, s + 8, s + 16, s + 24}}

\* Sixteen bytes per round until no more than the last sixteen are left.
CityMurmur(s, len) ==
    IF len <= 16 THEN ccHashLen0to16(s, len) \cup (IF len >= 8 THEN Fetch64(s) ELSE {})
    ELSE Fetch64(s + len - 8) \cup Fetch64(s + len - 16)
         \cup UNION {Fetch64(s + 16 * i) \cup Fetch64(s + 16 * i + 8) : i \in 0 .. (len - 17) \div 16}

ccBlock(s) ==
    Fetch64(s + 8) \cup Fetch64(s + 48) \cup Fetch64(s + 40) \cup Fetch64(s + 16)
    \cup ccWeakHashLen32WithSeeds(s) \cup ccWeakHashLen32WithSeeds(s + 32)

\* Up to four chunks of 32 bytes each from the end.
ccTail(s, len) ==
    UNION {LET p == s + len - 32 * i IN Fetch64(p + 16) \cup Fetch64(p) \cup ccWeakHashLen32WithSeeds(p) :
             i \in 1 .. (len + 31) \div 32}

CityHash128WithSeed(s, len) ==
    LET rounds == len \div 128
    IN  IF len < 128 THEN CityMurmur(s, len)
        ELSE Fetch64(s) \cup Fetch64(s + 8) \cup Fetch64(s + 88)
             \cup (UNION {ccBlock(s + 64 * i) : i \in 0 .. 2 * rounds - 1})
             \cup ccTail(s + 128 * rounds, len - 128 * rounds)

\* The first sixteen bytes are the seed of the rest.
CityHash128(s, len) ==
    IF len >= 16 THEN CityHash128WithSeed(s + 16, len - 16) \cup Fetch64(s) \cup Fetch64(s + 8)
    ELSE CityHash128WithSeed(s, len)

ccFingerprint128(s, len) == CityHash128(s, len)

(***************************************************************************)
(* The public functions                                                    *)
(***************************************************************************)
Hash32(len) ==
    CASE build.sse41 /\ build.x86_64 -> ntHash32(0, len)
      [] ~(build.sse41 /\ build.x86_64) /\ build.sse42 /\ build.aesni -> suHash32(0, len)
      [] ~(build.sse41 /\ build.x86_64) /\ build.sse42 /\ ~build.aesni -> saHash32(0, len)
      [] OTHER -> mkHash32(0, len)

Hash32WithSeed(len) ==
    CASE build.sse41 /\ build.x86_64 -> ntHash32WithSeed(0, len)
      [] ~(build.sse41 /\ build.x86_64) /\ build.sse42 /\ build.aesni -> suHash32WithSeed(0, len)
      [] ~(build.sse41 /\ build.x86_64) /\ build.sse42 /\ ~build.aesni -> saHash32WithSeed(0, len)
      [] OTHER -> mkHash32WithSeed(0, len)

Hash64(len) == IF build.sse42 /\ build.x86_64 THEN teHash64(0, len) ELSE xoHash64(0, len)
Hash(len) == IF build.x86_64 THEN Hash64(len) ELSE Hash32(len)
Hash64WithSeed(len) == naHash64WithSeed(0, len)
Hash64WithSeeds(len) == naHash64WithSeeds(0, len)
Hash128(len) == ccFingerprint128(0, len)
Hash128WithSeed(len) == CityHash128WithSeed(0, len)
Fingerprint32(len) == mkHash32(0, len)
Fingerprint64(len) == naHash64(0, len)
Fingerprint128(len) == ccFingerprint128(0, len)

Entries == {"Hash32", "Hash32WithSeed", "Hash", "Hash64", "Hash64WithSeed", "Hash64WithSeeds", "Hash128",
            "Hash128WithSeed", "Fingerprint32", "Fingerprint64", "Fingerprint128", "ccHash32", "ccHash32WithSeed"}

Reads(e, len) ==
    CASE e = "Hash32" -> Hash32(len)
      [] e = "Hash32WithSeed" -> Hash32WithSeed(len)
      [] e = "Hash" -> Hash(len)
      [] e = "Hash64" -> Hash64(len)
      [] e = "Hash64WithSeed" -> Hash64WithSeed(len)
      [] e = "Hash64WithSeeds" -> Hash64WithSeeds(len)
      [] e = "Hash128" -> Hash128(len)
      [] e = "Hash128WithSeed" -> Hash128WithSeed(len)
      [] e = "Fingerprint32" -> Fingerprint32(len)
      [] e = "Fingerprint64" -> Fingerprint64(len)
      [] e = "Fingerprint128" -> Fingerprint128(len)
      [] e = "ccHash32" -> ccHash32(0, len)
      [] OTHER -> ccHash32WithSeed(0, len)

FarmInit == build \in Builds /\ entry \in Entries /\ length = 0

\* The caller hashes an input one byte longer.
HashLonger == length < MaxLength /\ length' = length + 1 /\ UNCHANGED <<build, entry>>

FarmNext == HashLonger
FarmSpec == FarmInit /\ [][FarmNext]_farmVars

\* Every public hash function reads no byte outside the input it was given,
\* and leaves out no byte of it: two inputs that differ anywhere reach the
\* mixing steps with different words.  In particular no build dispatches to
\* a namespace compiled as a stub.
ReadsExactlyTheInput == Reads(entry, length) = 0 .. length - 1
=============================================================================
