-------------------------------- MODULE Errno --------------------------------
(***************************************************************************)
(* The error numbers the system calls of kernel/src/syscall.rs and         *)
(* kernel/src/posix.rs answer with, negated.                               *)
(***************************************************************************)
ENOENT  == 2
EBADF   == 9
EFAULT  == 14
EBUSY   == 16
ENOTDIR == 20
EISDIR  == 21
EINVAL  == 22
ENOTTY  == 25
ERANGE  == 34
=============================================================================
