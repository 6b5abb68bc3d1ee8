-------------------------------- MODULE Errno --------------------------------
(***************************************************************************)
(* The error numbers of libuv: include/uv/errno.h and UV_ERRNO_MAP of      *)
(* include/uv.h.  An error of the system keeps the system's number where   *)
(* there is one, made negative; on Windows, and where the system does not  *)
(* know the error, it gets a number of libuv's own.  The examples tell     *)
(* errors from results by their sign and from each other by their number.  *)
(***************************************************************************)
EXTENDS Integers, Sequences, Functions

CONSTANTS
  errno,      \* the system's own number of each error
  Missing,    \* the sets of errors that a system may not define
  Results     \* what calls return when they succeed

VARIABLES
  platform,   \* what libuv is compiled for
  error,      \* the error of the last call, or "none"
  result      \* what the call returned

callVars == <<platform, error, result>>

-----------------------------------------------------------------------------
(* The tables of errno.h: names in a row whose numbers follow one another. *)

From(first, names) ==
  [e \in Range(names) |-> first + (CHOOSE i \in DOMAIN names : names[i] = e) - 1]

Special == From(-4095, <<"EOF", "UNKNOWN">>)

\* The table f, and the table g for the errors that f has not.
Join(f, g) ==
  [e \in DOMAIN f \cup DOMAIN g |-> IF e \in DOMAIN f THEN f[e] ELSE g[e]]

\* Errors of name resolution, with numbers of libuv's own everywhere.
EAI == Join(
  From(-3011, <<"EAI_SOCKTYPE", "EAI_SERVICE", "EAI_OVERFLOW", "EAI_NONAME",
                "EAI_NODATA", "EAI_MEMORY", "EAI_FAMILY", "EAI_FAIL",
                "EAI_CANCELED", "EAI_BADFLAGS", "EAI_AGAIN", "EAI_ADDRFAMILY">>),
  From(-3014, <<"EAI_PROTOCOL", "EAI_BADHINTS">>))

\* The numbers that the #else branches give.
Fallback1 == From(-4093,
  <<"E2BIG", "EACCES", "EADDRINUSE", "EADDRNOTAVAIL", "EAFNOSUPPORT", "EAGAIN">>)

Fallback2 == From(-4084,
  <<"EALREADY", "EBADF", "EBUSY", "ECANCELED", "ECHARSET", "ECONNABORTED",
    "ECONNREFUSED", "ECONNRESET", "EDESTADDRREQ", "EEXIST", "EFAULT",
    "EHOSTUNREACH", "EINTR", "EINVAL", "EIO", "EISCONN", "EISDIR", "ELOOP",
    "EMFILE">>)

Fallback3 == From(-4065,
  <<"EMSGSIZE", "ENAMETOOLONG", "ENETDOWN", "ENETUNREACH", "ENFILE", "ENOBUFS",
    "ENODEV", "ENOENT", "ENOMEM", "ENONET", "ENOSPC", "ENOSYS", "ENOTCONN",
    "ENOTDIR", "ENOTEMPTY", "ENOTSOCK", "ENOTSUP", "EPERM", "EPIPE", "EPROTO">>)

Fallback4 == From(-4045,
  <<"EPROTONOSUPPORT", "EPROTOTYPE", "EROFS", "ESHUTDOWN", "ESPIPE", "ESRCH",
    "ETIMEDOUT", "ETXTBSY", "EXDEV", "EFBIG", "ENOPROTOOPT", "ERANGE", "ENXIO",
    "EMLINK", "EHOSTDOWN", "EREMOTEIO", "ENOTTY", "EFTYPE">>)

Fallback == Join(Join(Fallback1, Fallback2), Join(Fallback3, Fallback4))

SystemErrors == DOMAIN Fallback

\* The system's numbers are not 0, all different, and none of libuv's own, which
\* are 3000 to 4095; 64 is no other error than EHOSTDOWN (the comment at 407).
ASSUME ErrnoAssumption ==
  /\ errno \in [SystemErrors -> Nat \ {0}] /\ IsInjective(errno)
  /\ \A e \in SystemErrors : errno[e] \notin 3000 .. 4095
  /\ errno["EHOSTDOWN"] = 64
  /\ Missing \subseteq SUBSET SystemErrors
  /\ Results \subseteq Nat

-----------------------------------------------------------------------------

\* A system whose numbers are negative (EDOM <= 0) defines all of them.
Platforms ==
  {p \in [family : {"windows", "bsd", "unix"}, edom : {1, -1}, missing : Missing] :
     p.edom < 0 => p.family = "unix" /\ p.missing = {}}

\* -(x), or x where the system's numbers are negative already.
UV__ERR(x) == IF platform.edom > 0 THEN -x ELSE x

Defined(e) == platform.family # "windows" /\ e \notin platform.missing

Own_NoSign(e) ==
  \* Mutant: the number of EPROTO is given without UV__ERR or a sign.
  CASE e = "EHOSTDOWN" /\ platform.family = "bsd" -> -64
    [] e = "EPROTO" -> 4046
    [] OTHER -> Fallback[e]

\* EHOSTDOWN may be hidden on BSD-like systems, and is 64 there.  EPROTO's
\* own number is written UV__ERR(4046).
Own(e) ==
  CASE e = "EHOSTDOWN" /\ platform.family = "bsd" -> -64
    [] e = "EPROTO" -> UV__ERR(4046)
    [] OTHER -> Fallback[e]

\* Every error of UV_ERRNO_MAP is UV_ and its name.
UV_ERRNO_MAP == DOMAIN Special \cup DOMAIN EAI \cup DOMAIN Fallback

Number(e) ==
  CASE e \in SystemErrors /\ Defined(e) -> UV__ERR(platform.edom * errno[e])
    [] e \in SystemErrors /\ ~Defined(e) -> Own(e)
    [] OTHER -> Join(Special, EAI)[e]

-----------------------------------------------------------------------------

NoCall == platform \in Platforms /\ error = "none" /\ result = 0

\* A call fails, and the example looks at what it returned.
Fail(e) ==
  /\ error = "none"
  /\ error' = e /\ result' = Number(e)
  /\ UNCHANGED platform

\* A call succeeds, and returns 0 or how much was read or written.
Succeed ==
  /\ error' = "none" /\ result' \in Results
  /\ UNCHANGED platform

Call == Succeed \/ \E e \in UV_ERRNO_MAP : Fail(e)

Calls == NoCall /\ [][Call]_callVars

-----------------------------------------------------------------------------

\* The platform is one of those there are, and the result is that of the call.
ResultInv ==
  /\ platform \in Platforms
  /\ \/ error = "none" /\ result \in Nat
     \/ error \in UV_ERRNO_MAP /\ result = Number(error)

\* errors.rst 6-10: errors are negative constants, and a negative number
\* means an error: a result is below 0 just when there is an error, and its
\* number is that of no other error on the platform, so that a comparison
\* with UV_EOF and uv_err_name tell the right one.
Unambiguous ==
  /\ result < 0 <=> error # "none"
  /\ error # "none" => \A e \in UV_ERRNO_MAP : Number(e) = result => e = error

=============================================================================
