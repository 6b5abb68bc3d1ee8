------------------------- MODULE ErrnoProgressProofs -------------------------
(***************************************************************************)
(* Proofs about two small components that share no variable: Errno, for    *)
(* any numbers a system may give its errors and any sets of errors it may  *)
(* not define, and Progress, for any size and any steps of the download,   *)
(* with a double that is moved at once and with one that is not.           *)
(***************************************************************************)
EXTENDS Errno, Progress, TLAPS

-----------------------------------------------------------------------------
(* Tables of numbers.                                                      *)

\* Different errors have different numbers in f, and all are in S.
Separates(f, S) == IsInjective(f) /\ \A e \in DOMAIN f : f[e] \in S

\* Numbers that follow one another are different, whatever the names.
LEMMA FromSeparates ==
  ASSUME NEW first \in Int, NEW n \in Nat, NEW names, DOMAIN names = 1 .. n,
         NEW last \in Int, last = first + n - 1
  PROVE  /\ Separates(From(first, names), first .. last)
         /\ DOMAIN From(first, names) = Range(names)
  <1> DEFINE f == From(first, names)
             i(e) == CHOOSE k \in DOMAIN names : names[k] = e
  <1>1. DOMAIN f = Range(names) /\ \A e \in Range(names) : f[e] = first + i(e) - 1
    BY DEF From
  <1>2. \A e \in Range(names) : i(e) \in 1 .. n /\ names[i(e)] = e
    BY DEF Range
  <1> HIDE DEF f, i
  <1>3. \A e \in Range(names) : f[e] \in first .. last
    BY <1>1, <1>2
  <1>4. ASSUME NEW a \in Range(names), NEW b \in Range(names), f[a] = f[b]
        PROVE  a = b
    <2>1. i(a) = i(b)
      BY <1>1, <1>2, <1>4
    <2>2. QED
      BY <1>2, <2>1
  <1>5. QED
    BY <1>1, <1>3, <1>4 DEF f, Separates, IsInjective

\* Two tables with no number in common are one.
LEMMA JoinSeparates ==
  ASSUME NEW f, NEW g, NEW S, NEW T, Separates(f, S), Separates(g, T), S \cap T = {}
  PROVE  /\ Separates(Join(f, g), S \cup T)
         /\ DOMAIN Join(f, g) = DOMAIN f \cup DOMAIN g
  <1> DEFINE h == Join(f, g)
  <1>1. /\ DOMAIN h = DOMAIN f \cup DOMAIN g
        /\ \A e \in DOMAIN f : h[e] = f[e] /\ h[e] \in S /\ h[e] \notin T
        /\ \A e \in DOMAIN h : e \notin DOMAIN f =>
             e \in DOMAIN g /\ h[e] = g[e] /\ h[e] \in T /\ h[e] \notin S
    BY DEF Join, Separates
  <1> HIDE DEF h
  <1>2. \A e \in DOMAIN h : h[e] \in S \cup T
    BY <1>1
  <1>3. ASSUME NEW a \in DOMAIN h, NEW b \in DOMAIN h, h[a] = h[b]
        PROVE  a = b
    BY <1>1, <1>3 DEF Separates, IsInjective
  <1>4. QED
    BY <1>1, <1>2, <1>3 DEF h, Separates, IsInjective

\* The two errors that are none of the system's have numbers of their own.
LEMMA SpecialSeparates ==
  Separates(Special, -4095 .. -4094) /\ "none" \notin DOMAIN Special
  <1> DEFINE names == <<"EOF", "UNKNOWN">>
             first == -4095
             last == -4094
  <1>1. DOMAIN names = 1 .. 2 /\ "none" \notin Range(names)
    BY DEF Range
  <1>2. first \in Int /\ last \in Int /\ last = first + 2 - 1
    OBVIOUS
  <1>3. Special = From(first, names)
    BY DEF Special
  <1> HIDE DEF names, first, last
  <1>4. Separates(Special, first .. last) /\ DOMAIN Special = Range(names)
    BY <1>1, <1>2, <1>3, FromSeparates
  <1>5. QED
    BY <1>1, <1>4 DEF first, last

\* The errors of name resolution have numbers of their own: the last two stand
\* below the others.
LEMMA EAISeparates ==
  Separates(EAI, -3014 .. -3000) /\ "none" \notin DOMAIN EAI
  <1> DEFINE names1 == <<"EAI_SOCKTYPE", "EAI_SERVICE", "EAI_OVERFLOW",
                         "EAI_NONAME", "EAI_NODATA", "EAI_MEMORY", "EAI_FAMILY",
                         "EAI_FAIL", "EAI_CANCELED", "EAI_BADFLAGS",
                         "EAI_AGAIN", "EAI_ADDRFAMILY">>
             names2 == <<"EAI_PROTOCOL", "EAI_BADHINTS">>
             first1 == -3011   last1 == -3000
             first2 == -3014   last2 == -3013
  <1>1. /\ DOMAIN names1 = 1 .. 12 /\ "none" \notin Range(names1)
        /\ DOMAIN names2 = 1 .. 2 /\ "none" \notin Range(names2)
    BY DEF Range
  <1>2. /\ first1 \in Int /\ last1 \in Int /\ last1 = first1 + 12 - 1
        /\ first2 \in Int /\ last2 \in Int /\ last2 = first2 + 2 - 1
    OBVIOUS
  <1> DEFINE f == From(first1, names1)
             g == From(first2, names2)
  <1>3. EAI = Join(f, g)
    BY DEF EAI
  <1>4. (first1 .. last1) \cap (first2 .. last2) = {}
    OBVIOUS
  <1>5. (first1 .. last1) \cup (first2 .. last2) \subseteq -3014 .. -3000
    OBVIOUS
  <1> HIDE DEF names1, names2, first1, last1, first2, last2
  <1>6. /\ Separates(f, first1 .. last1) /\ DOMAIN f = Range(names1)
        /\ Separates(g, first2 .. last2) /\ DOMAIN g = Range(names2)
    BY <1>1, <1>2, FromSeparates
  <1> HIDE DEF f, g
  <1>7. /\ Separates(EAI, (first1 .. last1) \cup (first2 .. last2))
        /\ DOMAIN EAI = DOMAIN f \cup DOMAIN g
    BY <1>3, <1>4, <1>6, JoinSeparates
  <1>8. QED
    BY <1>1, <1>5, <1>6, <1>7 DEF Separates

\* The first row of the #else branches.
LEMMA Fallback1Separates ==
  Separates(Fallback1, -4093 .. -4088) /\ "none" \notin DOMAIN Fallback1
    /\ "EPROTO" \notin DOMAIN Fallback1
  <1> DEFINE names == <<"E2BIG", "EACCES", "EADDRINUSE", "EADDRNOTAVAIL",
                        "EAFNOSUPPORT", "EAGAIN">>
             first == -4093
             last == -4088
  <1>1. DOMAIN names = 1 .. 6 /\ "none" \notin Range(names) /\ "EPROTO" \notin Range(names)
    BY DEF Range
  <1>2. first \in Int /\ last \in Int /\ last = first + 6 - 1
    OBVIOUS
  <1>3. Fallback1 = From(first, names)
    BY DEF Fallback1
  <1> HIDE DEF names, first, last
  <1>4. Separates(Fallback1, first .. last) /\ DOMAIN Fallback1 = Range(names)
    BY <1>1, <1>2, <1>3, FromSeparates
  <1>5. QED
    BY <1>1, <1>4 DEF first, last

\* The second row.
LEMMA Fallback2Separates ==
  Separates(Fallback2, -4084 .. -4066) /\ "none" \notin DOMAIN Fallback2
    /\ "EPROTO" \notin DOMAIN Fallback2
  <1> DEFINE names == <<"EALREADY", "EBADF", "EBUSY", "ECANCELED", "ECHARSET",
                        "ECONNABORTED", "ECONNREFUSED", "ECONNRESET",
                        "EDESTADDRREQ", "EEXIST", "EFAULT", "EHOSTUNREACH",
                        "EINTR", "EINVAL", "EIO", "EISCONN", "EISDIR", "ELOOP",
                        "EMFILE">>
             first == -4084
             last == -4066
  <1>1. DOMAIN names = 1 .. 19 /\ "none" \notin Range(names) /\ "EPROTO" \notin Range(names)
    BY DEF Range
  <1>2. first \in Int /\ last \in Int /\ last = first + 19 - 1
    OBVIOUS
  <1>3. Fallback2 = From(first, names)
    BY DEF Fallback2
  <1> HIDE DEF names, first, last
  <1>4. Separates(Fallback2, first .. last) /\ DOMAIN Fallback2 = Range(names)
    BY <1>1, <1>2, <1>3, FromSeparates
  <1>5. QED
    BY <1>1, <1>4 DEF first, last

\* The third row, which ends with EPROTO.
LEMMA Fallback3Separates ==
  Separates(Fallback3, -4065 .. -4046) /\ "none" \notin DOMAIN Fallback3
    /\ "EPROTO" \in DOMAIN Fallback3 /\ Fallback3["EPROTO"] = -4046
  <1> DEFINE names == <<"EMSGSIZE", "ENAMETOOLONG", "ENETDOWN", "ENETUNREACH",
                        "ENFILE", "ENOBUFS", "ENODEV", "ENOENT", "ENOMEM",
                        "ENONET", "ENOSPC", "ENOSYS", "ENOTCONN", "ENOTDIR",
                        "ENOTEMPTY", "ENOTSOCK", "ENOTSUP", "EPERM", "EPIPE",
                        "EPROTO">>
             first == -4065
             last == -4046
  <1>1. DOMAIN names = 1 .. 20 /\ "none" \notin Range(names)
    BY DEF Range
  <1>2. first \in Int /\ last \in Int /\ last = first + 20 - 1
    OBVIOUS
  <1>3. Fallback3 = From(first, names)
    BY DEF Fallback3
  <1>6. names[20] = "EPROTO" /\ \A i \in 1 .. 20 : names[i] = "EPROTO" => i = 20
    OBVIOUS
  <1>7. Fallback3["EPROTO"] = -4046 /\ "EPROTO" \in Range(names)
    BY <1>1, <1>3, <1>6 DEF From, Range
  <1> HIDE DEF names, first, last
  <1>4. Separates(Fallback3, first .. last) /\ DOMAIN Fallback3 = Range(names)
    BY <1>1, <1>2, <1>3, FromSeparates
  <1>5. QED
    BY <1>1, <1>7, <1>4 DEF first, last

\* The fourth row, which has EHOSTDOWN.
LEMMA Fallback4Separates ==
  Separates(Fallback4, -4045 .. -4028) /\ "none" \notin DOMAIN Fallback4
    /\ "EHOSTDOWN" \in DOMAIN Fallback4
  <1> DEFINE names == <<"EPROTONOSUPPORT", "EPROTOTYPE", "EROFS", "ESHUTDOWN",
                        "ESPIPE", "ESRCH", "ETIMEDOUT", "ETXTBSY", "EXDEV",
                        "EFBIG", "ENOPROTOOPT", "ERANGE", "ENXIO", "EMLINK",
                        "EHOSTDOWN", "EREMOTEIO", "ENOTTY", "EFTYPE">>
             first == -4045
             last == -4028
  <1>1. DOMAIN names = 1 .. 18 /\ "none" \notin Range(names)
    BY DEF Range
  <1>2. first \in Int /\ last \in Int /\ last = first + 18 - 1
    OBVIOUS
  <1>3. Fallback4 = From(first, names)
    BY DEF Fallback4
  <1>6. "EHOSTDOWN" \in Range(names)
    BY names[15] = "EHOSTDOWN", <1>1 DEF Range
  <1> HIDE DEF names, first, last
  <1>4. Separates(Fallback4, first .. last) /\ DOMAIN Fallback4 = Range(names)
    BY <1>1, <1>2, <1>3, FromSeparates
  <1>5. QED
    BY <1>1, <1>6, <1>4 DEF first, last

\* libuv's own numbers for the errors of the system are different, and no error
\* is called "none".
LEMMA FallbackSeparates ==
  /\ Separates(Fallback, -4093 .. -4028) /\ "none" \notin SystemErrors
  /\ "EHOSTDOWN" \in SystemErrors
  /\ "EPROTO" \in SystemErrors /\ Fallback["EPROTO"] = -4046
  <1> DEFINE f == Join(Fallback1, Fallback2)
             g == Join(Fallback3, Fallback4)
  <1>1. /\ Separates(f, (-4093 .. -4088) \cup (-4084 .. -4066))
        /\ DOMAIN f = DOMAIN Fallback1 \cup DOMAIN Fallback2
    <2>1. (-4093 .. -4088) \cap (-4084 .. -4066) = {}
      OBVIOUS
    <2> DEFINE S == -4093 .. -4088
               T == -4084 .. -4066
    <2>2. Separates(Fallback1, S) /\ Separates(Fallback2, T) /\ S \cap T = {}
      BY <2>1, Fallback1Separates, Fallback2Separates
    <2> HIDE DEF S, T
    <2>3. /\ Separates(f, S \cup T)
          /\ DOMAIN f = DOMAIN Fallback1 \cup DOMAIN Fallback2
      BY <2>2, JoinSeparates
    <2>4. QED
      BY <2>3 DEF S, T
  <1>2. /\ Separates(g, (-4065 .. -4046) \cup (-4045 .. -4028))
        /\ DOMAIN g = DOMAIN Fallback3 \cup DOMAIN Fallback4 /\ g["EPROTO"] = -4046
    <2>1. (-4065 .. -4046) \cap (-4045 .. -4028) = {}
      OBVIOUS
    <2> DEFINE S == -4065 .. -4046
               T == -4045 .. -4028
    <2>2. Separates(Fallback3, S) /\ Separates(Fallback4, T) /\ S \cap T = {}
      BY <2>1, Fallback3Separates, Fallback4Separates
    <2> HIDE DEF S, T
    <2>3. /\ Separates(g, S \cup T)
          /\ DOMAIN g = DOMAIN Fallback3 \cup DOMAIN Fallback4
      BY <2>2, JoinSeparates
    <2>4. QED
      BY <2>3, Fallback3Separates DEF S, T, Join
  <1>3. Fallback = Join(f, g)
    BY DEF Fallback
  <1> DEFINE low == (-4093 .. -4088) \cup (-4084 .. -4066)
             high == (-4065 .. -4046) \cup (-4045 .. -4028)
  <1>4. low \cap high = {}
    OBVIOUS
  <1>5. low \cup high \subseteq -4093 .. -4028
    OBVIOUS
  <1> HIDE DEF f, g, low, high
  <1>6. Separates(Fallback, low \cup high) /\ DOMAIN Fallback = DOMAIN f \cup DOMAIN g
    <2>1. Separates(f, low) /\ Separates(g, high)
      BY <1>1, <1>2 DEF low, high
    <2>2. /\ Separates(Join(f, g), low \cup high)
          /\ DOMAIN Join(f, g) = DOMAIN f \cup DOMAIN g
      BY <1>4, <2>1, JoinSeparates
    <2>3. QED
      BY <1>3, <2>2
  <1>7. Separates(Fallback, -4093 .. -4028)
    BY <1>5, <1>6 DEF Separates
  <1>8. "EPROTO" \notin DOMAIN f /\ "EPROTO" \in DOMAIN g
    BY <1>1, <1>2, Fallback1Separates, Fallback2Separates, Fallback3Separates
  <1>9. Fallback["EPROTO"] = -4046
    BY <1>2, <1>3, <1>8 DEF Join
  <1>10. QED
    BY <1>1, <1>2, <1>6, <1>7, <1>8, <1>9, Fallback1Separates, Fallback2Separates,
       Fallback3Separates, Fallback4Separates DEF SystemErrors

-----------------------------------------------------------------------------
(* The numbers on a platform.                                              *)

\* The errors that are none of the system's have numbers of libuv's own.
LEMMA OwnSeparates ==
  /\ Separates(Join(Special, EAI), (-4095 .. -4094) \cup (-3014 .. -3000))
  /\ DOMAIN Join(Special, EAI) = DOMAIN Special \cup DOMAIN EAI
  <1>1. (-4095 .. -4094) \cap (-3014 .. -3000) = {}
    OBVIOUS
  <1> DEFINE S == -4095 .. -4094
             T == -3014 .. -3000
  <1>2. Separates(Special, S) /\ Separates(EAI, T) /\ S \cap T = {}
    BY <1>1, SpecialSeparates, EAISeparates
  <1> HIDE DEF S, T
  <1>3. /\ Separates(Join(Special, EAI), S \cup T)
        /\ DOMAIN Join(Special, EAI) = DOMAIN Special \cup DOMAIN EAI
    BY <1>2, JoinSeparates
  <1>4. QED
    BY <1>3 DEF S, T

\* What a system's error has for a number: the system's, 64 or libuv's own.
LEMMA SystemNumber ==
  ASSUME platform \in Platforms,
         NEW e \in SystemErrors
  PROVE  /\ Defined(e) => Number(e) = -errno[e]
         /\ ~Defined(e) => Number(e) = IF e = "EHOSTDOWN" /\ platform.family = "bsd" THEN -64
                                       ELSE Fallback[e]
  <1>1. /\ platform.family \in {"windows", "bsd", "unix"} /\ platform.edom \in {1, -1}
        /\ platform.edom < 0 => platform.family = "unix" /\ platform.missing = {}
    BY DEF Platforms
  <1>2. errno[e] \in Nat
    BY ErrnoAssumption
  <1>3. Number(e) = IF Defined(e) THEN UV__ERR(platform.edom * errno[e]) ELSE Own(e)
    BY DEF Number
  <1>4. CASE Defined(e)
    <2>1. UV__ERR(platform.edom * errno[e]) = -errno[e]
      BY <1>1, <1>2 DEF UV__ERR
    <2>2. QED
      BY <1>3, <1>4, <2>1
  <1>5. CASE ~Defined(e)
    <2>1. platform.edom = 1
      BY <1>1, <1>5 DEF Defined
    <2>2. UV__ERR(4046) = -4046
      BY <2>1 DEF UV__ERR
    <2>3. Own(e) = IF e = "EHOSTDOWN" /\ platform.family = "bsd" THEN -64 ELSE Fallback[e]
      BY <2>2, FallbackSeparates DEF Own
    <2>4. QED
      BY <1>3, <1>5, <2>3
  <1>6. QED
    BY <1>4, <1>5

\* The number of every error is below 0, and no other error has it.
LEMMA NumbersDiffer ==
  ASSUME platform \in Platforms
  PROVE  /\ \A e \in UV_ERRNO_MAP : Number(e) \in Int /\ Number(e) < 0
         /\ \A e, d \in UV_ERRNO_MAP : Number(e) = Number(d) => e = d
  <1> DEFINE A == UV_ERRNO_MAP \ SystemErrors
             f == Join(Special, EAI)
  <1>1. \A e \in A : /\ Number(e) = f[e] /\ e \in DOMAIN f
                     /\ f[e] \in (-4095 .. -4094) \cup (-3014 .. -3000)
    BY OwnSeparates DEF Separates, Number, UV_ERRNO_MAP, SystemErrors
  <1>2. \A e \in SystemErrors :
          \/ /\ Defined(e) /\ Number(e) = -errno[e]
             /\ errno[e] \in Nat \ {0} /\ errno[e] \notin 3000 .. 4095
          \/ ~Defined(e) /\ e = "EHOSTDOWN" /\ Number(e) = -64
          \/ ~Defined(e) /\ Number(e) = Fallback[e] /\ Fallback[e] \in -4093 .. -4028
    BY SystemNumber, FallbackSeparates, ErrnoAssumption DEF Separates, SystemErrors
  <1>3. \A e, d \in A : Number(e) = Number(d) => e = d
    BY <1>1, OwnSeparates DEF Separates, IsInjective
  <1>4. \A e, d \in SystemErrors : Number(e) = Number(d) => e = d
    <2> SUFFICES ASSUME NEW e \in SystemErrors, NEW d \in SystemErrors,
                        Number(e) = Number(d)
                 PROVE  e = d
      OBVIOUS
    <2>1. /\ Fallback[e] = Fallback[d] => e = d
          /\ errno[e] = errno[d] => e = d
      BY FallbackSeparates, ErrnoAssumption DEF Separates, IsInjective, SystemErrors
    <2>2. /\ errno[e] = 64 => e = "EHOSTDOWN"
          /\ errno[d] = 64 => d = "EHOSTDOWN"
      BY FallbackSeparates, ErrnoAssumption DEF IsInjective
    <2>3. QED
      BY SMTT(30), <1>2, <2>1, <2>2
  <1> HIDE DEF A, f
  <1>5. \A e \in A : Number(e) \in (-4095 .. -4094) \cup (-3014 .. -3000)
    BY <1>1
  <1>6. \A e \in SystemErrors :
          /\ Number(e) \in Int /\ Number(e) < 0
          /\ Number(e) \notin (-4095 .. -4094) \cup (-3014 .. -3000)
    BY <1>2
  <1>7. \A e \in UV_ERRNO_MAP : e \in A \/ e \in SystemErrors
    BY DEF A
  <1>8. \A e \in UV_ERRNO_MAP : Number(e) \in Int /\ Number(e) < 0
    BY <1>5, <1>6, <1>7
  <1>9. \A e, d \in UV_ERRNO_MAP : Number(e) = Number(d) => e = d
    BY <1>3, <1>4, <1>5, <1>6, <1>7
  <1>10. QED
    BY <1>8, <1>9

\* The result always is that of the last call.
THEOREM ResultOfCall == Calls => []ResultInv
  <1>1. NoCall => ResultInv
    BY DEF NoCall, ResultInv
  <1>2. ASSUME ResultInv, [Call]_callVars
        PROVE  ResultInv'
    <2>1. CASE Succeed
      BY <1>2, <2>1, ErrnoAssumption DEF Succeed, ResultInv, Platforms
    <2>2. ASSUME NEW e \in UV_ERRNO_MAP, Fail(e)
          PROVE  ResultInv'
      <3>1. platform' = platform /\ error' = e /\ result' = Number(e)
        BY <2>2 DEF Fail
      <3>2. Number(e)' = Number(e)
        BY <3>1 DEF Number, Defined, UV__ERR, Own
      <3>3. QED
        BY <1>2, <3>1, <3>2 DEF ResultInv
    <2>3. CASE UNCHANGED callVars
      BY <1>2, <2>3 DEF ResultInv, callVars, Number, Defined, UV__ERR, Own
    <2>4. QED
      BY <1>2, <2>1, <2>2, <2>3 DEF Call
  <1>3. QED
    BY <1>1, <1>2, PTL DEF Calls

\* A result tells an error by its sign and which one by its number, on every
\* platform and whatever numbers the system gives: include/uv/errno.h.
THEOREM ErrorsTold == Calls => []Unambiguous
  <1>1. ASSUME ResultInv
        PROVE  Unambiguous
    <2>1. platform \in Platforms
      BY <1>1 DEF ResultInv
    <2>2. "none" \notin UV_ERRNO_MAP
      BY SpecialSeparates, EAISeparates, FallbackSeparates DEF UV_ERRNO_MAP, SystemErrors
    <2>3. CASE error = "none" /\ result \in Nat
      BY <2>3 DEF Unambiguous
    <2>4. CASE error \in UV_ERRNO_MAP /\ result = Number(error)
      BY <2>1, <2>2, <2>4, NumbersDiffer DEF Unambiguous
    <2>5. QED
      BY <1>1, <2>3, <2>4 DEF ResultInv
  <1>2. QED
    BY <1>1, ResultOfCall, PTL

-----------------------------------------------------------------------------
(* The progress example.                                                  *)

\* A progress is a number, and the downloaded amount and -1 are progresses.
LEMMA ProgressesAre ==
  /\ Progresses \subseteq Int /\ -1 \in Progresses
  /\ Amounts \subseteq Progresses
  /\ 0 \in Amounts
  /\ \A d \in Amounts, n \in 1 .. MaxStep : d < Size => d + n \in Amounts
  BY SizeAssumption DEF Progresses, Amounts

\* Two progresses make a word, and a word is made of two progresses.
LEMMA WordsAre ==
  /\ \A w \in Words : w.hi \in Progresses /\ w.lo \in Progresses
  /\ \A h, l \in Progresses : [hi |-> h, lo |-> l] \in Words
  BY DEF Words

\* In particular they can be compared.
LEMMA Numbers ==
  ASSUME TypeOK
  PROVE  /\ downloaded \in Nat /\ sent \in Int /\ woken \in Int
         /\ sent >= -1 /\ percentage.hi >= -1 /\ percentage.lo >= -1
         /\ percentage.hi \in Int /\ percentage.lo \in Int
         /\ reg.hi \in Int /\ reg.lo \in Int /\ shown.hi \in Int /\ shown.lo \in Int
  <1>1. Amounts \subseteq Nat /\ \A p \in Progresses : p >= -1
    BY DEF Amounts, Progresses
  <1>2. QED
    BY <1>1, ProgressesAre, WordsAre DEF TypeOK

\* The initial states satisfy the inductive invariant.
LEMMA InitWatcherInv == Init => WatcherInv
  <1> SUFFICES ASSUME Init
               PROVE  WatcherInv
    OBVIOUS
  <1> USE DEF Init
  <1>1. TypeOK
    <2>1. percentage \in Words /\ reg \in Words /\ shown \in Words
      BY ProgressesAre, WordsAre DEF Nothing
    <2>2. QED
      BY <2>1, ProgressesAre DEF TypeOK
  <1>2. DataIsSet /\ SendsToOpenWatcher
    BY DEF DataIsSet, SendsToOpenWatcher
  <1>3. WorkerInv /\ LoopInv
    BY DEF WorkerInv, LoopInv, Nothing
  <1>4. QED
    BY <1>1, <1>2, <1>3 DEF WatcherInv

\* A pool thread takes the request.
LEMMA TakeWorkInv ==
  ASSUME WatcherInv, TakeWork
  PROVE  WatcherInv'
  <1> USE DEF TakeWork, Alive, workerVars, loopVars
  <1>1. TypeOK'
    BY DEF WatcherInv, TypeOK
  <1>2. DataIsSet'
    BY DEF WatcherInv, DataIsSet
  <1>3. SendsToOpenWatcher'
    BY DEF SendsToOpenWatcher
  <1>4. WorkerInv'
    BY DEF WatcherInv, WorkerInv
  <1>5. LoopInv'
    BY DEF WatcherInv, LoopInv
  <1>6. QED
    BY <1>1, <1>2, <1>3, <1>4, <1>5 DEF WatcherInv

\* The worker tests whether all is downloaded.
LEMMA WhileInv ==
  ASSUME WatcherInv, While
  PROVE  WatcherInv'
  <1> USE DEF While, Alive, workerVars, loopVars
  <1>1. TypeOK'
    BY DEF WatcherInv, TypeOK
  <1>2. DataIsSet'
    BY DEF WatcherInv, DataIsSet
  <1>3. SendsToOpenWatcher'
    BY DEF SendsToOpenWatcher
  <1>4. WorkerInv'
    BY DEF WatcherInv, WorkerInv
  <1>5. LoopInv'
    BY DEF WatcherInv, LoopInv
  <1>6. QED
    BY <1>1, <1>2, <1>3, <1>4, <1>5 DEF WatcherInv

\* The worker writes percentage, one word or both.
LEMMA WritePercentageInv ==
  ASSUME WatcherInv, WritePercentage
  PROVE  WatcherInv'
  <1> USE DEF WritePercentage, Alive, workerVars, loopVars
  <1>1. TypeOK'
    <2>1. percentage' = [hi |-> downloaded, lo |-> percentage'.lo]
      BY DEF WatcherInv, TypeOK, Words
    <2>2. percentage'.lo \in {percentage.lo, downloaded}
      OBVIOUS
    <2>3. percentage' \in Words
      BY <2>1, ProgressesAre, WordsAre DEF WatcherInv, TypeOK
    <2>4. QED
      BY <2>3 DEF WatcherInv, TypeOK
  <1>2. DataIsSet'
    BY DEF WatcherInv, DataIsSet
  <1>3. SendsToOpenWatcher'
    BY DEF SendsToOpenWatcher
  <1>4. WorkerInv'
    BY Numbers DEF WatcherInv, WorkerInv
  <1>5. LoopInv'
    BY Numbers DEF WatcherInv, WorkerInv, LoopInv
  <1>6. QED
    BY <1>1, <1>2, <1>3, <1>4, <1>5 DEF WatcherInv

\* The worker sets async.data.
LEMMA SetDataInv ==
  ASSUME WatcherInv, SetData
  PROVE  WatcherInv'
  <1> USE DEF SetData, Alive, workerVars, loopVars
  <1>1. TypeOK'
    BY DEF WatcherInv, TypeOK
  <1>2. DataIsSet'
    BY DEF DataIsSet
  <1>3. SendsToOpenWatcher'
    BY DEF WatcherInv, SendsToOpenWatcher, WorkerInv
  <1>4. WorkerInv'
    BY DEF WatcherInv, WorkerInv
  <1>5. LoopInv'
    BY DEF WatcherInv, LoopInv
  <1>6. QED
    BY <1>1, <1>2, <1>3, <1>4, <1>5 DEF WatcherInv

\* The worker wakes the loop.
LEMMA AsyncSendInv ==
  ASSUME WatcherInv, AsyncSend
  PROVE  WatcherInv'
  <1> USE DEF AsyncSend, Alive, workerVars, loopVars
  <1>1. TypeOK'
    BY ProgressesAre DEF WatcherInv, TypeOK
  <1>2. DataIsSet'
    BY DEF WatcherInv, DataIsSet
  <1>3. SendsToOpenWatcher'
    BY DEF SendsToOpenWatcher
  <1>4. WorkerInv'
    BY Numbers DEF WatcherInv, WorkerInv
  <1>5. LoopInv'
    BY Numbers DEF WatcherInv, WorkerInv, LoopInv
  <1>6. QED
    BY <1>1, <1>2, <1>3, <1>4, <1>5 DEF WatcherInv

\* The worker sleeps and downloads some more.
LEMMA SleepInv ==
  ASSUME WatcherInv, Sleep
  PROVE  WatcherInv'
  <1> USE DEF Sleep, Alive, workerVars, loopVars
  <1>1. TypeOK'
    BY ProgressesAre DEF WatcherInv, TypeOK, WorkerInv
  <1>2. DataIsSet'
    BY DEF WatcherInv, DataIsSet
  <1>3. SendsToOpenWatcher'
    BY DEF SendsToOpenWatcher
  <1>4. WorkerInv'
    BY Numbers DEF WatcherInv, WorkerInv
  <1>5. LoopInv'
    BY DEF WatcherInv, LoopInv
  <1>6. QED
    BY <1>1, <1>2, <1>3, <1>4, <1>5 DEF WatcherInv

\* The loop answers a send.
LEMMA AsyncReadyInv ==
  ASSUME WatcherInv, AsyncReady
  PROVE  WatcherInv'
  <1> USE DEF AsyncReady, Alive, workerVars, loopVars
  <1>1. TypeOK'
    BY DEF WatcherInv, TypeOK
  <1>2. DataIsSet'
    BY DEF WatcherInv, DataIsSet, WorkerInv
  <1>3. SendsToOpenWatcher'
    BY DEF SendsToOpenWatcher
  <1>4. WorkerInv'
    BY DEF WatcherInv, WorkerInv
  <1>5. LoopInv'
    BY Numbers DEF WatcherInv, WorkerInv, LoopInv
  <1>6. QED
    BY <1>1, <1>2, <1>3, <1>4, <1>5 DEF WatcherInv

\* print_progress reads percentage, one word or both.
LEMMA ReadPercentageInv ==
  ASSUME WatcherInv, ReadPercentage
  PROVE  WatcherInv'
  <1> USE DEF ReadPercentage, Alive, workerVars, loopVars
  <1>1. TypeOK'
    BY WordsAre DEF WatcherInv, TypeOK
  <1>2. DataIsSet'
    BY DEF WatcherInv, DataIsSet
  <1>3. SendsToOpenWatcher'
    BY DEF WatcherInv, SendsToOpenWatcher
  <1>4. WorkerInv'
    BY DEF WatcherInv, WorkerInv
  <1>5. LoopInv'
    BY Numbers DEF WatcherInv, WorkerInv, LoopInv
  <1>6. QED
    BY <1>1, <1>2, <1>3, <1>4, <1>5 DEF WatcherInv

\* print_progress prints what it read.
LEMMA print_progressInv ==
  ASSUME WatcherInv, print_progress
  PROVE  WatcherInv'
  <1> USE DEF print_progress, Alive, workerVars, loopVars
  <1>1. TypeOK'
    BY ProgressesAre, WordsAre DEF WatcherInv, TypeOK, Nothing
  <1>2. DataIsSet'
    BY DEF DataIsSet
  <1>3. SendsToOpenWatcher'
    BY DEF WatcherInv, SendsToOpenWatcher
  <1>4. WorkerInv'
    BY DEF WatcherInv, WorkerInv
  <1>5. LoopInv'
    BY Numbers DEF WatcherInv, LoopInv, Nothing
  <1>6. QED
    BY <1>1, <1>2, <1>3, <1>4, <1>5 DEF WatcherInv

\* The loop reports the request and closes the watcher.
LEMMA afterInv ==
  ASSUME WatcherInv, after
  PROVE  WatcherInv'
  <1> USE DEF after, Alive, workerVars, loopVars
  <1>1. TypeOK'
    BY DEF WatcherInv, TypeOK
  <1>2. DataIsSet'
    BY DEF DataIsSet
  <1>3. SendsToOpenWatcher'
    BY DEF SendsToOpenWatcher
  <1>4. WorkerInv'
    BY DEF WatcherInv, WorkerInv
  <1>5. LoopInv'
    BY DEF WatcherInv, LoopInv
  <1>6. QED
    BY <1>1, <1>2, <1>3, <1>4, <1>5 DEF WatcherInv

\* The loop closes the watcher.
LEMMA CloseAsyncInv ==
  ASSUME WatcherInv, CloseAsync
  PROVE  WatcherInv'
  <1> USE DEF CloseAsync, Alive, workerVars, loopVars
  <1>1. TypeOK'
    BY DEF WatcherInv, TypeOK
  <1>2. DataIsSet'
    BY DEF DataIsSet
  <1>3. SendsToOpenWatcher'
    BY DEF WatcherInv, SendsToOpenWatcher
  <1>4. WorkerInv'
    BY DEF WatcherInv, WorkerInv
  <1>5. LoopInv'
    BY DEF WatcherInv, LoopInv
  <1>6. QED
    BY <1>1, <1>2, <1>3, <1>4, <1>5 DEF WatcherInv

\* The loop ends.
LEMMA ExitInv ==
  ASSUME WatcherInv, Exit
  PROVE  WatcherInv'
  <1> USE DEF Exit, Alive, workerVars, loopVars
  <1>1. TypeOK'
    BY DEF WatcherInv, TypeOK
  <1>2. DataIsSet'
    BY DEF DataIsSet
  <1>3. SendsToOpenWatcher'
    BY DEF SendsToOpenWatcher
  <1>4. WorkerInv'
    BY DEF WatcherInv, WorkerInv
  <1>5. LoopInv'
    BY DEF WatcherInv, LoopInv
  <1>6. QED
    BY <1>1, <1>2, <1>3, <1>4, <1>5 DEF WatcherInv

\* Every step keeps the invariant.
LEMMA NextWatcherInv == WatcherInv /\ [Next]_vars => WatcherInv'
  <1> SUFFICES ASSUME WatcherInv, [Next]_vars
               PROVE  WatcherInv'
    OBVIOUS
  <1>1. CASE Work
    BY <1>1, TakeWorkInv, WhileInv, WritePercentageInv, SetDataInv,
       AsyncSendInv, SleepInv DEF Work
  <1>2. CASE Loop
    BY <1>2, AsyncReadyInv, ReadPercentageInv, print_progressInv, afterInv,
       CloseAsyncInv, ExitInv DEF Loop
  <1>3. CASE UNCHANGED vars
    BY <1>3 DEF vars, WatcherInv, TypeOK, DataIsSet, SendsToOpenWatcher,
       WorkerInv, LoopInv
  <1>4. QED
    BY <1>1, <1>2, <1>3 DEF Next

\* The watcher is open when the worker sends to it, and its data is set when
\* print_progress follows it (main.c 17-18 and 28-32): no order of the two
\* threads makes print_progress read through NULL.
THEOREM WatcherCorrect == Spec => []WatcherInv
  BY InitWatcherInv, NextWatcherInv, PTL DEF Spec

\* Merged sends lose no progress: what print_progress is about to print is at
\* least as new as the send that woke it, though the worker writes percentage
\* while it reads it (main.c 16-18 and 32).
THEOREM FreshAlways == Spec => []Fresh
  <1>1. WatcherInv => Fresh
    BY DEF WatcherInv, LoopInv, Fresh
  <1>2. QED
    BY <1>1, WatcherCorrect, PTL

\* What print_progress prints never goes back, in either word.
THEOREM NeverGoesBack == Spec => NeverBackwards
  <1>1. WatcherInv /\ [Next]_vars => [shown'.hi >= shown.hi /\ shown'.lo >= shown.lo]_vars
    <2> SUFFICES ASSUME WatcherInv, Next
                 PROVE  shown'.hi >= shown.hi /\ shown'.lo >= shown.lo
      OBVIOUS
    <2>1. CASE print_progress
      BY <2>1 DEF WatcherInv, LoopInv, print_progress
    <2>2. CASE ~print_progress
      <3>1. shown' = shown
        BY <2>2 DEF Next, Work, Loop, TakeWork, While, WritePercentage, SetData,
           AsyncSend, Sleep, AsyncReady, ReadPercentage, after, CloseAsync,
           Exit, loopVars
      <3>2. QED
        BY <3>1, Numbers DEF WatcherInv
    <2>3. QED
      BY <2>1, <2>2
  <1>2. QED
    BY <1>1, WatcherCorrect, PTL DEF Spec, NeverBackwards

=============================================================================
