---------------------------- MODULE SessionClock ----------------------------
(***************************************************************************)
(* How the client tells from m_age and m_dateCreated whether its session   *)
(* lives (residue.cc, isClientValid and shouldTouch).  Both subtract       *)
(* unsigned words, so an age exceeded or a clock behind the server's wraps *)
(* around.                                                                 *)
(***************************************************************************)
EXTENDS Integers

CONSTANTS
  Modulus,          \* 2^64, of unsigned long
  TOUCH_THRESHOLD   \* seconds

ASSUME SessionClockAssumption ==
  /\ Modulus \in Nat /\ TOUCH_THRESHOLD \in Nat
  /\ TOUCH_THRESHOLD < Modulus

(* Unsigned subtraction. *)
Minus(a, b) == IF b <= a THEN a - b ELSE a - b + Modulus

(* Age 0 is a session that never ends. *)
isClientValid(age, created, now) == age = 0 \/ Minus(now, created) < age

(* Slip: the touch comes when nothing of the age is left. *)
shouldTouch_AtEnd(age, created, now) ==
  age # 0 /\ Minus(age, Minus(now, created)) = 0

shouldTouch(age, created, now) ==
  age # 0 /\ Minus(age, Minus(now, created)) < TOUCH_THRESHOLD
=============================================================================
