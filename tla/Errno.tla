------------------------------- MODULE Errno --------------------------------
(***************************************************************************)
(* Errno of hoarder-common/src/error.rs: the constants it names, and the   *)
(* decoding of a result that the kernel reports.                           *)
(***************************************************************************)
EXTENDS Integers

(* The associated constants of Errno, by value. *)
Errnos == (1 .. 40) \cup (42 .. 57) \cup (59 .. 133)

EINTR        == 4
EIO          == 5
EBADF        == 9
EAGAIN       == 11
ENOMEM       == 12
EFAULT       == 14
EINVAL       == 22
ENFILE       == 23
ENOTSOCK     == 88
EOPNOTSUPP   == 95
EAFNOSUPPORT == 97
ENETDOWN     == 100
ENETUNREACH  == 101
ENETRESET    == 102
ECONNABORTED == 103
ECONNRESET   == 104
ENOBUFS      == 105
ENOTCONN     == 107
ESHUTDOWN    == 108
ETIMEDOUT    == 110
EHOSTUNREACH == 113

(* Errno::from_raw_syscall_error: a negative result is minus an errno. *)
from_raw_syscall_error(val) == -val
=============================================================================
