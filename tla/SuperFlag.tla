----------------------------- MODULE SuperFlag -----------------------------
(***************************************************************************)
(* z.SuperFlag of src/cache.go (lines 114-272, the file z/flags.go): an   *)
(* option string "k1=v1; k2=v2; ..." parsed into a map by parseFlag, and   *)
(* MergeAndCheckDefault, which rejects options the default string does   *)
(* not name and fills in the defaults the user did not set.               *)
(*                                                                         *)
(* A flag string is abstracted to the sequence of its ';'-separated        *)
(* segments: Blank (whitespace only), Bare (text without '='), or a pair  *)
(* of a raw key and a value.  A raw key is a name written in one of       *)
(* several spellings (case, '_' for '-', surrounding blanks); the          *)
(* normalisation of lines 132-134 maps every spelling to its name.         *)
(* Each loop runs one iteration per step, and the range loops over Go     *)
(* maps visit the keys in any order.                                       *)
(***************************************************************************)
EXTENDS Integers, Sequences, FiniteSets, SequencesExt, FiniteSetsExt, TLC

CONSTANTS
    Names,        \* option names, after normalisation
    Spellings,    \* ways a name can be written in a flag string
    Vals,         \* option values after strings.TrimSpace: texts, as
                  \* sequences of one-character strings
    Blank,        \* a segment that is only whitespace
    Bare,         \* a non-blank segment with no '='
    MaxSegs,      \* longest flag string, in segments
    None

ASSUME SuperFlagAssumption ==
    /\ MaxSegs \in Nat
    /\ Blank # Bare
    /\ None \notin Vals

RawKeys == [name : Names, spelling : Spellings]
Pairs == [key : RawKeys, val : Vals]
Segments == Pairs \cup {Blank, Bare}

(* The flag strings of at most MaxSegs segments.                           *)
Flags == UNION {[1..n -> Segments] : n \in 0..MaxSegs}

(* strings.ToLower and strings.ReplaceAll(k, "_", "-") after TrimSpace.    *)
Normalize(rk) == rk.name

(* Go maps from option names to values.                                    *)
Maps == UNION {[D -> Vals] : D \in SUBSET Names}
EmptyMap == [n \in {} |-> None]
Put(f, k, v) == (k :> v) @@ f

VARIABLES
    user,     \* the flag string given to NewSuperFlag
    def,      \* the default string given to MergeAndCheckDefault
    sfNil,    \* MergeAndCheckDefault was called on a nil *SuperFlag
    pc,       \* where the caller is
    rest,     \* segments parseFlag has still to read
    kvm,      \* the map parseFlag is building
    m,        \* sf.m
    src,      \* parseFlag(flag) inside MergeAndCheckDefault
    numKeys,  \* the counter of lines 168-174
    todo      \* keys the current range loop has still to visit

vars == <<user, def, sfNil, pc, rest, kvm, m, src, numKeys, todo>>

Init ==
    /\ user \in Flags
    /\ def \in Flags
    /\ sfNil \in BOOLEAN
    /\ pc = IF sfNil THEN "parseDef" ELSE "parseUser"
    /\ rest = IF sfNil THEN def ELSE user
    /\ kvm = EmptyMap
    /\ m = EmptyMap
    /\ src = EmptyMap
    /\ numKeys = 0
    /\ todo = {}

Parsing == pc \in {"parseUser", "parseDef"} /\ rest # <<>>

(* parseFlag, line 128: a blank segment is skipped.                        *)
ParseBlank ==
    /\ Parsing /\ Head(rest) = Blank
    /\ rest' = Tail(rest)
    /\ UNCHANGED <<user, def, sfNil, pc, kvm, m, src, numKeys, todo>>

(* parseFlag, line 135: splits[1] of a segment without '=' is out of      *)
(* range, and the goroutine panics.                                        *)
ParseBare ==
    /\ Parsing /\ Head(rest) = Bare
    /\ pc' = "panic"
    /\ UNCHANGED <<user, def, sfNil, rest, kvm, m, src, numKeys, todo>>

ParsePairKeepFirst ==
    /\ Parsing /\ Head(rest) \in Pairs
    /\ LET k == Normalize(Head(rest).key)
       IN  kvm' = IF k \in DOMAIN kvm THEN kvm ELSE Put(kvm, k, Head(rest).val)
    /\ rest' = Tail(rest)
    /\ UNCHANGED <<user, def, sfNil, pc, m, src, numKeys, todo>>

(* parseFlag, lines 131-135: the normalised key maps to the trimmed value, *)
(* overwriting an earlier segment with the same key.                       *)
ParsePair ==
    /\ Parsing /\ Head(rest) \in Pairs
    /\ kvm' = Put(kvm, Normalize(Head(rest).key), Head(rest).val)
    /\ rest' = Tail(rest)
    /\ UNCHANGED <<user, def, sfNil, pc, m, src, numKeys, todo>>

(* NewSuperFlag returns parseFlag(user) as sf.m; MergeAndCheckDefault on  *)
(* a nil receiver returns parseFlag(def); otherwise it parses def as src  *)
(* and starts counting with numKeys = len(sf.m).                           *)
ParseDone ==
    /\ pc \in {"parseUser", "parseDef"} /\ rest = <<>>
    /\ kvm' = EmptyMap
    /\ \/ /\ pc = "parseUser"
          /\ m' = kvm /\ pc' = "parseDef" /\ rest' = def
          /\ UNCHANGED <<src, numKeys, todo>>
       \/ /\ pc = "parseDef" /\ sfNil
          /\ m' = kvm /\ pc' = "done"
          /\ UNCHANGED <<rest, src, numKeys, todo>>
       \/ /\ pc = "parseDef" /\ ~sfNil
          /\ src' = kvm /\ numKeys' = Cardinality(DOMAIN m) /\ todo' = DOMAIN kvm
          /\ pc' = "count"
          /\ UNCHANGED <<rest, m>>
    /\ UNCHANGED <<user, def, sfNil>>

MergeCountAny(k) ==
    /\ pc = "count" /\ k \in todo
    /\ numKeys' = numKeys - 1
    /\ todo' = todo \ {k}
    /\ UNCHANGED <<user, def, sfNil, pc, rest, kvm, m, src>>

(* Lines 170-174: one key of src; numKeys drops when sf.m has it too.      *)
MergeCount(k) ==
    /\ pc = "count" /\ k \in todo
    /\ numKeys' = IF k \in DOMAIN m THEN numKeys - 1 ELSE numKeys
    /\ todo' = todo \ {k}
    /\ UNCHANGED <<user, def, sfNil, pc, rest, kvm, m, src>>

(* Lines 175-178: an option of sf.m that src lacks makes numKeys nonzero, *)
(* and MergeAndCheckDefault panics; otherwise the filling loop starts.     *)
MergeCheck ==
    /\ pc = "count" /\ todo = {}
    /\ IF numKeys # 0 THEN pc' = "panic" /\ UNCHANGED todo
                      ELSE pc' = "fill" /\ todo' = DOMAIN src
    /\ UNCHANGED <<user, def, sfNil, rest, kvm, m, src, numKeys>>

MergeFillOverwrite(k) ==
    /\ pc = "fill" /\ k \in todo
    /\ m' = Put(m, k, src[k])
    /\ todo' = todo \ {k}
    /\ UNCHANGED <<user, def, sfNil, pc, rest, kvm, src, numKeys>>

(* Lines 179-183: a default is copied into sf.m unless the user set it.    *)
MergeFill(k) ==
    /\ pc = "fill" /\ k \in todo
    /\ m' = IF k \in DOMAIN m THEN m ELSE Put(m, k, src[k])
    /\ todo' = todo \ {k}
    /\ UNCHANGED <<user, def, sfNil, pc, rest, kvm, src, numKeys>>

(* Line 184: MergeAndCheckDefault returns sf.                              *)
MergeDone ==
    /\ pc = "fill" /\ todo = {}
    /\ pc' = "done"
    /\ UNCHANGED <<user, def, sfNil, rest, kvm, m, src, numKeys, todo>>

Next ==
    \/ ParseBlank \/ ParseBare \/ ParsePair \/ ParseDone
    \/ \E k \in Names : MergeCount(k)
    \/ MergeCheck
    \/ \E k \in Names : MergeFill(k)
    \/ MergeDone

Spec == Init /\ [][Next]_vars

-----------------------------------------------------------------------------
(***************************************************************************)
(* The typed readers of lines 187-272, on the SuperFlag that               *)
(* MergeAndCheckDefault returned.  A text is read by what strconv does    *)
(* to it; Fatal is log.Fatalf, which ends the program.  The model's texts  *)
(* use the characters 0 1 8 x t - only: every letter above 'f' is a digit *)
(* of no base up to 16, so "x" and "t" stand for any such letter, and no   *)
(* text is long enough to leave the range of a uint32.                     *)
(***************************************************************************)
Fatal == "log.Fatalf"

(* strconv's digit value of a character: '0'..'9', then letters from 10.  *)
DigitVal == ("0" :> 0) @@ ("1" :> 1) @@ ("8" :> 8) @@ ("x" :> 33) @@ ("t" :> 29)
Digit(c) == IF c \in DOMAIN DigitVal THEN DigitVal[c] ELSE 99

(* strconv.ParseUint(s, 0, bits): the base from the prefix ("0b", "0o",   *)
(* "0x" when at least one character follows, else "0" for octal), then   *)
(* n = n*base + d for every digit, a syntax error on any d >= base.        *)
ParseUint0(s) ==
    IF s = <<>> THEN Fatal
    ELSE LET pre == IF s[1] # "0" THEN 0
                    ELSE IF Len(s) >= 3 /\ s[2] \in {"b", "o", "x"} THEN 2 ELSE 1
             base == IF pre = 0 THEN 10
                     ELSE IF pre = 1 THEN 8
                     ELSE CASE s[2] = "b" -> 2 [] s[2] = "o" -> 8 [] s[2] = "x" -> 16
             ds == SubSeq(s, pre + 1, Len(s))
         IN  IF \E i \in 1..Len(ds) : Digit(ds[i]) >= base THEN Fatal
             ELSE FoldLeft(LAMBDA n, c : n * base + Digit(c), 0, ds)

(* strconv.ParseInt(s, 0, 64): an optional sign, then ParseUint.           *)
ParseInt0(s) ==
    IF s # <<>> /\ s[1] \in {"+", "-"}
    THEN LET u == ParseUint0(Tail(s))
         IN  IF u \notin Nat THEN Fatal ELSE IF s[1] = "-" THEN -u ELSE u
    ELSE ParseUint0(s)

(* strconv.ParseBool.                                                      *)
ParseBool(s) ==
    CASE s \in {<<"1">>, <<"t">>, <<"T">>} -> TRUE
      [] s \in {<<"0">>, <<"f">>, <<"F">>} -> FALSE
      [] s \in {<<"t","r","u","e">>, <<"T","R","U","E">>, <<"T","r","u","e">>} -> TRUE
      [] s \in {<<"f","a","l","s","e">>, <<"F","A","L","S","E">>, <<"F","a","l","s","e">>} -> FALSE
      [] OTHER -> Fatal

(* strconv.ParseFloat(s, 64) on this alphabet: an optional sign and        *)
(* decimal digits, leading zeros included; "0x1" lacks the 'p' exponent   *)
(* a hexadecimal float needs.                                              *)
ParseFloat(s) ==
    LET neg == s # <<>> /\ s[1] = "-"
        ds == IF s # <<>> /\ s[1] \in {"+", "-"} THEN Tail(s) ELSE s
    IN  IF ds = <<>> \/ \E i \in 1..Len(ds) : Digit(ds[i]) >= 10 THEN Fatal
        ELSE LET f == FoldLeft(LAMBDA n, c : n * 10 + Digit(c), 0, ds)
             IN  IF neg THEN -f ELSE f

(* GetString: sf.m[opt], "" for an option sf.m lacks.                     *)
GetString(opt) == IF opt \in DOMAIN m THEN m[opt] ELSE <<>>

Has(opt) == GetString(opt) # <<>>

(* Each reader returns its zero for an empty value, and otherwise the     *)
(* parse or log.Fatalf.                                                     *)
GetBool(opt) == IF Has(opt) THEN ParseBool(GetString(opt)) ELSE FALSE
GetFloat64(opt) == IF Has(opt) THEN ParseFloat(GetString(opt)) ELSE 0
GetInt64(opt) == IF Has(opt) THEN ParseInt0(GetString(opt)) ELSE 0
GetUint64(opt) == IF Has(opt) THEN ParseUint0(GetString(opt)) ELSE 0
GetUint32(opt) == IF Has(opt) THEN ParseUint0(GetString(opt)) ELSE 0

-----------------------------------------------------------------------------
(***************************************************************************)
(* Reference definitions, written from what the comments and tests of     *)
(* z/flags_test.go say the functions compute, not from their loops.        *)
(***************************************************************************)
PairIdx(s) == {i \in 1..Len(s) : s[i] \in Pairs}

(* The value of a key is the one of its last segment.                      *)
RefParse(s) ==
    LET keys == {Normalize(s[i].key) : i \in PairIdx(s)}
        last(k) == CHOOSE i \in PairIdx(s) :
                       /\ Normalize(s[i].key) = k
                       /\ \A j \in PairIdx(s) : Normalize(s[j].key) = k => j <= i
    IN  [k \in keys |-> s[last(k)].val]

HasBare(s) == \E i \in 1..Len(s) : s[i] = Bare

(* The user's options must all be named by the defaults.                   *)
RefPanics ==
    \/ HasBare(def)
    \/ ~sfNil /\ (HasBare(user) \/ ~(DOMAIN RefParse(user) \subseteq DOMAIN RefParse(def)))

(* User values win over defaults (flags_test.go, line 20).                 *)
RefMerged ==
    IF sfNil THEN RefParse(def)
    ELSE LET u == RefParse(user)
             d == RefParse(def)
         IN  [k \in DOMAIN u \cup DOMAIN d |-> IF k \in DOMAIN u THEN u[k] ELSE d[k]]

-----------------------------------------------------------------------------
(* Every variable keeps its type; numKeys never goes below zero.           *)
TypeOK ==
    /\ user \in Flags /\ def \in Flags /\ sfNil \in BOOLEAN
    /\ pc \in {"parseUser", "parseDef", "count", "fill", "done", "panic"}
    /\ rest \in Flags
    /\ kvm \in Maps /\ m \in Maps /\ src \in Maps
    /\ numKeys \in Nat
    /\ todo \subseteq Names

(* MergeAndCheckDefault, whatever order Go's map iteration takes, returns  *)
(* exactly the user's options completed by the defaults, and panics        *)
(* exactly when a segment has no '=' or the user named an unknown option. *)
MergeMatchesReference ==
    /\ pc = "done" => ~RefPanics /\ m = RefMerged
    /\ pc = "panic" => RefPanics

=============================================================================
