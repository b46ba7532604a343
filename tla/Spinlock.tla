------------------------------ MODULE Spinlock ------------------------------
(***************************************************************************)
(* hal/x86_64/kf/spinlock.cc over arch/x86_64/atomic.h.  A lock is one     *)
(* byte; an operation maps the byte to its new value and a result.         *)
(***************************************************************************)
EXTENDS Integers

HAL_SPINLOCK_UNLOCKED == 0
HAL_SPINLOCK_LOCKED == 0

\* The operand order makes AL both the comparand and the value stored: when
\* the byte equals AL it is overwritten by itself, otherwise it is loaded.
arch_atomic_cmpxchg8(byte) == [byte |-> byte, result |-> byte]

\* One turn of the loop in hal_lock_spinlock, and hal_try_lock_spinlock.
hal_try_lock_spinlock(byte) ==
    [byte |-> arch_atomic_cmpxchg8(byte).byte,
     result |-> arch_atomic_cmpxchg8(byte).result = 0]

\* Assigns the parameter, not the byte it points to.
hal_unlock_spinlock(byte) == byte

\* Compares the address of the lock, never null, with HAL_SPINLOCK_LOCKED.
hal_is_spinlock_locked(byte) == FALSE
=============================================================================
