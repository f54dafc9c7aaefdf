---------------------------- MODULE VaultProofs ----------------------------
(***************************************************************************)
(* What the promise of Vault is worth: whoever keeps it loses no stock     *)
(* art, for any screens and images.                                        *)
(***************************************************************************)
EXTENDS Vault, TLAPS

Typed == screen \in [Screen -> Custom \cup {Stock}] /\ saved \in [Screen -> BOOLEAN]

IInv == Typed /\ NothingLost

(* A screen is written only once its copy is saved, and a copy is given up *)
(* only while the art is on its screen.                                    *)
LEMMA Step == IInv /\ [Next]_vars => IInv'
<1> SUFFICES ASSUME IInv, [Next]_vars PROVE IInv'
  OBVIOUS
<1> USE DEF IInv, Typed, NothingLost
<1>1. ASSUME NEW p \in Screen, Capture(p)
      PROVE  IInv'
  BY <1>1 DEF Capture
<1>2. ASSUME NEW p \in Screen, NEW image \in Custom \cup {Stock}, Write(p, image)
      PROVE  IInv'
  BY <1>2 DEF Write
<1>3. CASE Lose
  <2> PICK P \in SUBSET {p \in Screen : screen[p] = Stock} :
           saved' = [p \in Screen |-> IF p \in P THEN FALSE ELSE saved[p]]
    BY <1>3 DEF Lose
  <2>1. screen' = screen
    BY <1>3 DEF Lose
  <2>2. saved' \in [Screen -> BOOLEAN]
    OBVIOUS
  <2>3. ASSUME NEW p \in Screen
        PROVE  screen[p] = Stock \/ saved'[p]
    BY Zenon
  <2>4. QED
    BY <2>1, <2>2, <2>3
<1>4. CASE UNCHANGED vars
  BY <1>4 DEF vars
<1>5. QED
  BY <1>1, <1>2, <1>3, <1>4 DEF Next

(* apply.py, "a screen's stock image is captured before that screen is     *)
(* ever written": the stock art of every screen is on it or saved.         *)
THEOREM StockArtIsKept == Spec => []NothingLost
<1>1. Init => IInv
  BY DEF Init, IInv, Typed, NothingLost
<1>2. IInv => NothingLost
  BY DEF IInv
<1>3. QED
  BY <1>1, <1>2, Step, PTL DEF Spec
=============================================================================
