----------------------------- MODULE MenuProofs -----------------------------
(***************************************************************************)
(* Theorems about Menu: for menus of any length, any types and a stack of  *)
(* any depth, a key is waited for only in an open menu, the globals hold   *)
(* the choices of the menus on the stack, no index leaves its array, and   *)
(* a pin under calibration has a sensor of that kind.                      *)
(***************************************************************************)
EXTENDS Menu, TLAPS, WellFoundedInduction

\* What a stack is made of, whatever the n of its frames are.
IsStack(s) ==
    /\ \E S : s \in Seq(S)
    /\ \A k \in 1..Len(s) : s[k] = Frame(s[k].f, s[k].n, s[k].type)

\* Who calls whom, as far as the choices need it. The main loop calls MainMenu only.
CallersInv ==
    /\ stack # <<>> => stack[1].f = "MainMenu"
    /\ \A k \in 1..Len(stack) :
          /\ stack[k].f = "PinConectMenu" => k > 1 /\ stack[k - 1].f = "ConectMenu"
          /\ stack[k].f = "TypeMenu" => k > 2 /\ stack[k - 1].f = "PinConectMenu"
          /\ stack[k].f = "SubTimeMenu" => k > 1 /\ stack[k - 1].f = "SetTimeMenu"

\* Where the next choice goes while a list waits for it.
LevelInv ==
    /\ Waiting("ConectMenu") \/ Waiting("SetTimeMenu") => level = 1
    /\ Waiting("PinConectMenu") => level = 2

\* A menu comes back to its caller with something done or the menu closed, so that no
\* loop but MainMenu's goes on after a call.
ReturnInv ==
    /\ at \in {"key", "back"}
    /\ stack = <<>> => at = "back" /\ ~returning
    /\ stack # <<>> /\ at = "back" => returning \/ ~showStatus

MenuInv ==
    /\ IsStack(stack) /\ DOMAIN path = 0..4
    /\ CallersInv /\ LevelInv /\ ReturnInv
    /\ KeysMeanOpen /\ PathIsTheWay

-----------------------------------------------------------------------------
(* Stacks *)

\* A stack that is not empty has a top.
LEMMA TopOfStack ==
    ASSUME NEW s, IsStack(s), s # <<>>
    PROVE  /\ Len(s) \in Nat \ {0}
           /\ DOMAIN s = 1..Len(s)
           /\ Last(s) = s[Len(s)]
  BY DEF IsStack, Last

\* A frame more.
LEMMA PushTop ==
    ASSUME NEW s, IsStack(s), NEW f, NEW n, NEW type
    PROVE  /\ IsStack(Append(s, Frame(f, n, type)))
           /\ Len(Append(s, Frame(f, n, type))) = Len(s) + 1
           /\ Append(s, Frame(f, n, type))[Len(s) + 1] = Frame(f, n, type)
           /\ \A k \in 1..Len(s) : Append(s, Frame(f, n, type))[k] = s[k]
<1>1. PICK F : F = Frame(f, n, type)
  OBVIOUS
<1>2. F = Frame(F.f, F.n, F.type)
  BY <1>1 DEF Frame
<1>3. PICK S : s \in Seq(S)
  BY DEF IsStack
<1>4. s \in Seq(S \cup {F}) /\ F \in S \cup {F}
  BY <1>3
<1>5. /\ Append(s, F) \in Seq(S \cup {F})
      /\ Len(Append(s, F)) = Len(s) + 1 /\ Append(s, F)[Len(s) + 1] = F
      /\ \A k \in 1..Len(s) : Append(s, F)[k] = s[k]
      /\ Len(s) \in Nat
  BY <1>4
<1>6. \A k \in 1..Len(s) : s[k] = Frame(s[k].f, s[k].n, s[k].type)
  BY DEF IsStack
<1>7. \A k \in 1..Len(Append(s, F)) :
         Append(s, F)[k] = Frame(Append(s, F)[k].f, Append(s, F)[k].n, Append(s, F)[k].type)
  BY <1>2, <1>5, <1>6
<1>8. IsStack(Append(s, F))
  BY <1>5, <1>7 DEF IsStack
<1> QED
  BY <1>1, <1>5, <1>8

\* The return from the top menu.
LEMMA ReturnTop ==
    ASSUME NEW s, IsStack(s), s # <<>>
    PROVE  /\ IsStack(Front(s)) /\ Len(Front(s)) = Len(s) - 1
           /\ \A k \in 1..(Len(s) - 1) : Front(s)[k] = s[k]
<1>1. PICK S : s \in Seq(S)
  BY DEF IsStack
<1>2. Len(s) \in Nat \ {0}
  BY TopOfStack
<1>3. /\ Front(s) \in Seq(S) /\ Len(Front(s)) = Len(s) - 1
      /\ \A k \in 1..(Len(s) - 1) : Front(s)[k] = s[k]
  BY <1>1, <1>2 DEF Front
<1> QED
  BY <1>2, <1>3 DEF IsStack

\* Another frame in the place of the top.
LEMMA ReplaceTop ==
    ASSUME IsStack(stack), stack # <<>>, NEW f, NEW n, NEW type
    PROVE  /\ IsStack(WithTop(Frame(f, n, type)))
           /\ Len(WithTop(Frame(f, n, type))) = Len(stack)
           /\ WithTop(Frame(f, n, type))[Len(stack)] = Frame(f, n, type)
           /\ \A k \in 1..(Len(stack) - 1) : WithTop(Frame(f, n, type))[k] = stack[k]
<1>1. Len(stack) \in Nat \ {0}
  BY TopOfStack
<1>2. /\ IsStack(Front(stack)) /\ Len(Front(stack)) = Len(stack) - 1
      /\ \A k \in 1..(Len(stack) - 1) : Front(stack)[k] = stack[k]
  BY ReturnTop
<1> QED
  BY <1>1, <1>2, PushTop DEF WithTop

\* The call of another menu.
LEMMA CallTop ==
    ASSUME IsStack(stack), stack # <<>>, NEW n, NEW f, NEW m, NEW type,
           Call(n, Frame(f, m, type))
    PROVE  /\ IsStack(stack') /\ Len(stack') = Len(stack) + 1
           /\ stack'[Len(stack) + 1] = Frame(f, m, type)
           /\ stack'[Len(stack)] = Frame(Top.f, n, Top.type)
           /\ \A k \in 1..(Len(stack) - 1) : stack'[k] = stack[k]
<1>1. Len(stack) \in Nat \ {0}
  BY TopOfStack
<1>2. PICK s : s = WithN(n)
  OBVIOUS
<1>3. /\ IsStack(s) /\ Len(s) = Len(stack)
      /\ s[Len(stack)] = Frame(Top.f, n, Top.type)
      /\ \A k \in 1..(Len(stack) - 1) : s[k] = stack[k]
  BY <1>2, ReplaceTop DEF WithN
<1>4. stack' = Append(s, Frame(f, m, type))
  BY <1>2 DEF Call
<1> QED
  BY <1>1, <1>3, <1>4, PushTop

-----------------------------------------------------------------------------
(* What calls, returns and highlighting do to the callers. *)

LEMMA CallCallers ==
    ASSUME IsStack(stack), CallersInv, stack # <<>>, NEW n, NEW f, NEW m, NEW type,
           Call(n, Frame(f, m, type)),
           f = "PinConectMenu" => Top.f = "ConectMenu",
           f = "TypeMenu" => Top.f = "PinConectMenu",
           f = "SubTimeMenu" => Top.f = "SetTimeMenu"
    PROVE  /\ IsStack(stack') /\ stack' # <<>> /\ CallersInv'
           /\ Len(stack) \in Nat \ {0} /\ Len(stack') = Len(stack) + 1
           /\ Top' = Frame(f, m, type)
           /\ stack'[Len(stack)] = Frame(Top.f, n, Top.type)
           /\ \A k \in 1..(Len(stack) - 1) : stack'[k] = stack[k]
<1>1. Len(stack) \in Nat \ {0} /\ Top = stack[Len(stack)]
  BY TopOfStack DEF Top
<1>2. /\ IsStack(stack') /\ Len(stack') = Len(stack) + 1
      /\ stack'[Len(stack) + 1] = Frame(f, m, type)
      /\ stack'[Len(stack)] = Frame(Top.f, n, Top.type)
      /\ \A k \in 1..(Len(stack) - 1) : stack'[k] = stack[k]
  BY CallTop
<1>3. stack' # <<>>
  BY <1>1, <1>2
<1>4. Top' = Frame(f, m, type)
  BY <1>2, <1>3 DEF Top, Last
<1>5. stack'[Len(stack) + 1].f = f /\ \A k \in 1..Len(stack) : stack'[k].f = stack[k].f
  BY <1>1, <1>2 DEF Frame
<1>6. CallersInv'
  BY <1>1, <1>2, <1>3, <1>5 DEF CallersInv
<1> QED
  BY <1>1, <1>2, <1>3, <1>4, <1>6

LEMMA ReturnCallers ==
    ASSUME IsStack(stack), CallersInv, stack # <<>>, Return
    PROVE  /\ IsStack(stack') /\ CallersInv'
           /\ stack' = <<>> => Top.f = "MainMenu"
<1>1. Len(stack) \in Nat \ {0} /\ Top = stack[Len(stack)]
  BY TopOfStack DEF Top
<1>2. /\ IsStack(stack') /\ Len(stack') = Len(stack) - 1
      /\ \A k \in 1..(Len(stack) - 1) : stack'[k] = stack[k]
  BY ReturnTop DEF Return
<1>3. stack' = <<>> => Len(stack) = 1
  BY <1>1, <1>2
<1>4. stack' # <<>> => Len(stack) > 1
  <2> SUFFICES ASSUME stack' # <<>> PROVE Len(stack) > 1
    OBVIOUS
  <2>1. Len(stack') \in Nat \ {0}
    BY <1>2, TopOfStack
  <2> QED
    BY <1>1, <1>2, <2>1
<1>5. CallersInv'
  BY <1>1, <1>2, <1>4 DEF CallersInv
<1> QED
  BY <1>1, <1>2, <1>3, <1>5 DEF CallersInv

LEMMA ReplaceCallers ==
    ASSUME IsStack(stack), CallersInv, stack # <<>>, NEW f, NEW n, NEW type,
           f = Top.f, stack' = WithTop(Frame(f, n, type))
    PROVE  /\ IsStack(stack') /\ stack' # <<>> /\ CallersInv'
           /\ Len(stack) \in Nat \ {0} /\ Len(stack') = Len(stack)
           /\ Top'.f = Top.f
           /\ \A k \in 1..(Len(stack) - 1) : stack'[k] = stack[k]
<1>1. Len(stack) \in Nat \ {0} /\ Top = stack[Len(stack)]
  BY TopOfStack DEF Top
<1>2. /\ IsStack(stack') /\ Len(stack') = Len(stack)
      /\ stack'[Len(stack)] = Frame(f, n, type)
      /\ \A k \in 1..(Len(stack) - 1) : stack'[k] = stack[k]
  BY ReplaceTop
<1>3. stack' # <<>> /\ Top' = Frame(f, n, type)
  BY <1>1, <1>2 DEF Top, Last
<1>4. \A k \in 1..Len(stack) : stack'[k].f = stack[k].f
  BY <1>1, <1>2 DEF Frame
<1>5. CallersInv'
  BY <1>1, <1>2, <1>3, <1>4 DEF CallersInv
<1> QED
  BY <1>1, <1>2, <1>3, <1>5 DEF Frame

-----------------------------------------------------------------------------
(* The invariant after a call, a return, another highlight. *)

LEMMA PlainCall ==
    ASSUME MenuInv, stack # <<>>, NEW n, NEW f, NEW m, NEW type, Call(n, Frame(f, m, type)),
           f \notin {"PinConectMenu", "TypeMenu", "SubTimeMenu"},
           f \in {"ConectMenu", "SetTimeMenu"} => level' = 1,
           path' = path, at' = "key", showStatus', ~returning'
    PROVE  MenuInv'
<1>1. /\ IsStack(stack') /\ stack' # <<>> /\ CallersInv'
      /\ Top' = Frame(f, m, type)
  BY CallCallers DEF MenuInv
<1>2. Top'.f = f
  BY <1>1 DEF Frame
<1>3. LevelInv' /\ PathIsTheWay'
  BY <1>2 DEF LevelInv, PathIsTheWay, Waiting
<1> QED
  BY <1>1, <1>3 DEF MenuInv, ReturnInv, KeysMeanOpen

LEMMA CalibCall ==
    ASSUME MenuInv, stack # <<>>, NEW n, CalibMenu(n)
    PROVE  MenuInv'
<1>1. PICK m, type : Call(n, Frame("CalibMenu", m, type))
  BY DEF CalibMenu
<1>2. /\ IsStack(stack') /\ stack' # <<>> /\ CallersInv'
      /\ Top' = Frame("CalibMenu", m, type)
  BY <1>1, CallCallers DEF MenuInv
<1>3. Top'.f = "CalibMenu"
  BY <1>2 DEF Frame
<1>4. LevelInv' /\ PathIsTheWay'
  BY <1>3 DEF LevelInv, PathIsTheWay, Waiting
<1>5. /\ at' \in {"key", "back"} /\ path' = path
      /\ at' = "key" => showStatus' /\ ~returning'
      /\ at' = "back" => returning' \/ ~showStatus'
  BY DEF CalibMenu
<1> QED
  BY <1>2, <1>4, <1>5 DEF MenuInv, ReturnInv, KeysMeanOpen

LEMMA PlainReturn ==
    ASSUME MenuInv, stack # <<>>, Return, DOMAIN path' = 0..4,
           returning' \/ ~showStatus',
           Top.f = "MainMenu" => ~returning'
    PROVE  MenuInv'
<1>1. /\ IsStack(stack') /\ CallersInv'
      /\ stack' = <<>> => Top.f = "MainMenu"
  BY ReturnCallers DEF MenuInv
<1>2. at' = "back"
  BY DEF Return
<1>3. LevelInv' /\ PathIsTheWay' /\ KeysMeanOpen'
  BY <1>2 DEF LevelInv, PathIsTheWay, KeysMeanOpen, Waiting
<1> QED
  BY <1>1, <1>2, <1>3 DEF MenuInv, ReturnInv

LEMMA PlainReplace ==
    ASSUME MenuInv, stack # <<>>, at = "key", NEW f, NEW n, NEW type,
           f = Top.f, stack' = WithTop(Frame(f, n, type)),
           UNCHANGED <<at, showStatus, returning, level, path>>
    PROVE  MenuInv'
<1>1. /\ IsStack(stack') /\ stack' # <<>> /\ CallersInv'
      /\ Len(stack) \in Nat \ {0} /\ Len(stack') = Len(stack)
      /\ Top'.f = Top.f
      /\ \A k \in 1..(Len(stack) - 1) : stack'[k] = stack[k]
  BY ReplaceCallers DEF MenuInv
<1>2. LevelInv'
  BY <1>1 DEF MenuInv, LevelInv, Waiting
<1>3. /\ Top.f \in {"PinConectMenu", "SubTimeMenu"} => Len(stack) > 1
      /\ Top.f = "TypeMenu" => Len(stack) > 2
  BY <1>1, TopOfStack DEF MenuInv, CallersInv, Top
<1>4. PathIsTheWay'
  BY <1>1, <1>3 DEF MenuInv, PathIsTheWay, Waiting
<1> QED
  BY <1>1, <1>2, <1>4 DEF MenuInv, ReturnInv, KeysMeanOpen

-----------------------------------------------------------------------------
(* The choices handed on. *)

LEMMA ConectSelInv == ASSUME MenuInv, ConectSel PROVE MenuInv'
<1>1. /\ stack # <<>> /\ at = "key" /\ Top.f = "ConectMenu" /\ level = 1
  BY DEF MenuInv, LevelInv, ConectSel, Waiting
<1>2. Call(Top.n, Frame("PinConectMenu", 1, "none"))
  BY DEF ConectSel, Menu
<1>3. /\ IsStack(stack') /\ stack' # <<>> /\ CallersInv'
      /\ Len(stack) \in Nat \ {0} /\ Len(stack') = Len(stack) + 1
      /\ Top' = Frame("PinConectMenu", 1, "none")
      /\ stack'[Len(stack)] = Frame(Top.f, Top.n, Top.type)
  BY <1>1, <1>2, CallCallers DEF MenuInv
<1>4. Top'.f = "PinConectMenu" /\ stack'[Len(stack)].f = "ConectMenu" /\ stack'[Len(stack)].n = Top.n
  BY <1>1, <1>3 DEF Frame
<1>5. DOMAIN path' = 0..4 /\ path'[1] = Top.n /\ level' = 2
  BY <1>1 DEF ConectSel, MenuInv
<1>6. LevelInv' /\ PathIsTheWay'
  BY <1>3, <1>4, <1>5 DEF LevelInv, PathIsTheWay, Waiting
<1> QED
  BY <1>1, <1>3, <1>5, <1>6 DEF ConectSel, control, MenuInv, ReturnInv, KeysMeanOpen

LEMMA PinConectSelInv == ASSUME MenuInv, PinConectSel PROVE MenuInv'
<1>1. /\ stack # <<>> /\ at = "key" /\ Top.f = "PinConectMenu" /\ level = 2
  BY DEF MenuInv, LevelInv, PinConectSel, Waiting
<1>2. PICK m : Call(Top.n, Frame("TypeMenu", m, "none"))
  BY DEF PinConectSel, Menu
<1>3. /\ IsStack(stack') /\ stack' # <<>> /\ CallersInv'
      /\ Len(stack) \in Nat \ {0} /\ Len(stack') = Len(stack) + 1
      /\ Top' = Frame("TypeMenu", m, "none")
      /\ stack'[Len(stack)] = Frame(Top.f, Top.n, Top.type)
      /\ \A k \in 1..(Len(stack) - 1) : stack'[k] = stack[k]
  BY <1>1, <1>2, CallCallers DEF MenuInv
<1>4. Top'.f = "TypeMenu" /\ stack'[Len(stack)].f = "PinConectMenu" /\ stack'[Len(stack)].n = Top.n
  BY <1>1, <1>3 DEF Frame
<1>5. DOMAIN path' = 0..4 /\ path'[1] = path[1] /\ path'[2] = Top.n
  BY <1>1 DEF PinConectSel, MenuInv
<1>6. Len(stack) > 1
  BY <1>1, <1>3, TopOfStack DEF MenuInv, CallersInv, Top
<1>7. stack[Len(stack) - 1].f = "ConectMenu" /\ stack[Len(stack) - 1].n = path[1]
  BY <1>1 DEF MenuInv, PathIsTheWay, Waiting
<1>8. LevelInv' /\ PathIsTheWay'
  BY <1>3, <1>4, <1>5, <1>6, <1>7 DEF LevelInv, PathIsTheWay, Waiting
<1> QED
  BY <1>1, <1>3, <1>5, <1>8 DEF PinConectSel, control, MenuInv, ReturnInv, KeysMeanOpen

LEMMA SetTimeSelInv == ASSUME MenuInv, SetTimeSel PROVE MenuInv'
<1>1. /\ stack # <<>> /\ at = "key" /\ Top.f = "SetTimeMenu" /\ level = 1
  BY DEF MenuInv, LevelInv, SetTimeSel, Waiting
<1>2. Call(Top.n, Frame("SubTimeMenu", 0, "none"))
  BY DEF SetTimeSel, Menu
<1>3. /\ IsStack(stack') /\ stack' # <<>> /\ CallersInv'
      /\ Len(stack) \in Nat \ {0} /\ Len(stack') = Len(stack) + 1
      /\ Top' = Frame("SubTimeMenu", 0, "none")
      /\ stack'[Len(stack)] = Frame(Top.f, Top.n, Top.type)
  BY <1>1, <1>2, CallCallers DEF MenuInv
<1>4. Top'.f = "SubTimeMenu" /\ stack'[Len(stack)].f = "SetTimeMenu" /\ stack'[Len(stack)].n = Top.n
  BY <1>1, <1>3 DEF Frame
<1>5. DOMAIN path' = 0..4 /\ path'[1] = Top.n
  BY <1>1 DEF SetTimeSel, MenuInv
<1>6. LevelInv' /\ PathIsTheWay'
  BY <1>3, <1>4, <1>5 DEF LevelInv, PathIsTheWay, Waiting
<1> QED
  BY <1>1, <1>3, <1>5, <1>6 DEF SetTimeSel, control, MenuInv, ReturnInv, KeysMeanOpen

-----------------------------------------------------------------------------
(* The theorems *)

LEMMA InitMenuInv == Init => MenuInv
<1> SUFFICES ASSUME Init PROVE MenuInv
  OBVIOUS
<1>1. stack = <<>> /\ at = "back" /\ ~showStatus /\ ~returning /\ DOMAIN path = 0..4
  BY DEF Init
<1>2. IsStack(stack) /\ Len(stack) = 0
  <2>1. <<>> \in Seq({}) /\ Len(<<>>) = 0
    OBVIOUS
  <2> QED
    BY <1>1, <2>1 DEF IsStack
<1> QED
  BY <1>1, <1>2 DEF MenuInv, CallersInv, LevelInv, ReturnInv, KeysMeanOpen, PathIsTheWay, Waiting

\* A key in an open menu, or in loop() the one that opens it.
LEMMA KeyMenuInv == MenuInv /\ Key => MenuInv'
<1> SUFFICES ASSUME MenuInv, Key PROVE MenuInv'
  OBVIOUS
<1>0. at = "key" => showStatus /\ ~returning
  BY DEF MenuInv, KeysMeanOpen
<1>1. CASE Open
  <2>1. ~returning /\ DOMAIN path = 0..4
    BY <1>1 DEF Open, MenuInv, ReturnInv
  <2>2. PICK F : F = Frame("MainMenu", 1, "none")
    OBVIOUS
  <2>3. F.f = "MainMenu" /\ F = Frame(F.f, F.n, F.type)
    BY <2>2 DEF Frame
  <2>4. stack' = <<F>>
    BY <1>1, <2>2 DEF Open, Menu
  <2>5. <<F>> \in Seq({F}) /\ Len(<<F>>) = 1 /\ <<F>>[1] = F /\ <<F>> # <<>>
    OBVIOUS
  <2>6. IsStack(stack') /\ stack' # <<>> /\ Len(stack') = 1 /\ stack'[1].f = "MainMenu"
    <3>1. \A k \in 1..1 : <<F>>[k] = Frame(<<F>>[k].f, <<F>>[k].n, <<F>>[k].type)
      <4>1. \A k \in 1..1 : <<F>>[k] = F
        OBVIOUS
      <4> QED
        BY <2>3, <4>1
    <3>2. IsStack(<<F>>)
      BY <2>5, <3>1 DEF IsStack
    <3> QED
      BY <2>3, <2>4, <2>5, <3>2
  <2>7. Top'.f = "MainMenu"
    BY <2>6 DEF Top, Last
  <2>8. CallersInv' /\ LevelInv' /\ PathIsTheWay'
    BY <2>6, <2>7 DEF CallersInv, LevelInv, PathIsTheWay, Waiting
  <2> QED
    BY <1>1, <2>1, <2>6, <2>8 DEF Open, MenuInv, ReturnInv, KeysMeanOpen
<1>2. CASE Highlight
  <2>1. PICK n : stack' = WithTop(Frame(Top.f, n, Top.type))
    BY <1>2 DEF Highlight, WithN
  <2> QED
    BY <1>2, <2>1, PlainReplace DEF Highlight, control
<1>3. CASE MainSel
  <2>1. stack # <<>> /\ at = "key"
    BY <1>3 DEF MainSel, Waiting
  <2>2. CASE CalibMenu(2)
    BY <2>1, <2>2, CalibCall
  <2>3. CASE ~CalibMenu(2)
    <3>1. /\ Top.n \in {1, 3, 4}
          /\ Call(Top.n, CASE Top.n = 1 -> Menu("ConectMenu", 1)
                           [] Top.n = 3 -> Menu("DelayMenu", 0)
                           [] Top.n = 4 -> Menu("SetTimeMenu", 1))
          /\ level' = IF Top.n = 3 THEN level ELSE 1
          /\ UNCHANGED <<at, control, path, types>>
      BY <1>3, <2>3 DEF MainSel
    <3>2. path' = path /\ at' = "key" /\ showStatus' /\ ~returning'
      BY <1>0, <2>1, <3>1 DEF control
    <3>3. CASE Top.n = 1
      <4>1. Call(Top.n, Frame("ConectMenu", 1, "none")) /\ level' = 1
        BY <3>1, <3>3 DEF Menu
      <4> QED
        BY <2>1, <3>2, <4>1, PlainCall
    <3>4. CASE Top.n = 3
      <4>1. Call(Top.n, Frame("DelayMenu", 0, "none"))
        BY <3>1, <3>4 DEF Menu
      <4> QED
        BY <2>1, <3>2, <4>1, PlainCall
    <3>5. CASE Top.n = 4
      <4>1. Call(Top.n, Frame("SetTimeMenu", 1, "none")) /\ level' = 1
        BY <3>1, <3>5 DEF Menu
      <4> QED
        BY <2>1, <3>2, <4>1, PlainCall
    <3> QED
      BY <3>1, <3>3, <3>4, <3>5
  <2> QED
    BY <2>2, <2>3
<1>4. CASE MainBack
  BY <1>4, PlainReturn DEF MainBack, Waiting, MenuInv
<1>5. CASE ConectSel
  BY <1>5, ConectSelInv
<1>6. CASE ConectBack
  <2>1. Call(0, Frame("MainMenu", 1, "none")) /\ stack # <<>> /\ at = "key"
    BY <1>6 DEF ConectBack, Menu, Waiting
  <2> QED
    BY <1>0, <1>6, <2>1, PlainCall DEF ConectBack, control
<1>7. CASE PinConectSel
  BY <1>7, PinConectSelInv
<1>8. CASE ToConectMenu
  <2>1. Call(0, Frame("ConectMenu", 1, "none")) /\ stack # <<>> /\ at = "key"
    BY <1>8 DEF ToConectMenu, Menu, Waiting
  <2> QED
    BY <1>0, <1>8, <2>1, PlainCall DEF ToConectMenu, control
<1>9. CASE TypeSel
  <2>1. DOMAIN path' = 0..4
    BY <1>9 DEF TypeSel, MenuInv
  <2> QED
    BY <1>9, <2>1, PlainReturn DEF TypeSel, Waiting
<1>10. CASE CalibMove
  <2>1. PICK n, type : stack' = WithTop(Frame("CalibMenu", n, type))
    BY <1>10 DEF CalibMove
  <2> QED
    BY <1>10, <2>1, PlainReplace DEF CalibMove, Waiting, control
<1>11. CASE CalibSel
  <2>1. PICK m : Call(Top.n, Frame("CalibFirstStep", m, Top.type))
    BY <1>11 DEF CalibSel
  <2> QED
    BY <1>0, <1>11, <2>1, PlainCall DEF CalibSel, Waiting, control
<1>12. CASE CalibBack
  BY <1>12, PlainReturn DEF CalibBack, Waiting, MenuInv
<1>13. CASE StepSel
  <2>1. PICK f \in DOMAIN NextStep : Waiting(f) /\ Call(Top.n, Frame(NextStep[f], Top.n, Top.type))
    BY <1>13 DEF StepSel
  <2>2. NextStep[f] \in {"CalibSecondStep", "CalibThirdStep", "CalibFourthStep"}
    BY DEF NextStep
  <2> QED
    BY <1>0, <1>13, <2>1, <2>2, PlainCall DEF StepSel, Waiting, control
<1>14. CASE StepBack
  BY <1>14, CalibCall DEF StepBack, Waiting
<1>15. CASE Adjust
  BY <1>15 DEF Adjust, vars, MenuInv, IsStack, CallersInv, LevelInv, ReturnInv, KeysMeanOpen,
               PathIsTheWay, Waiting, Top
<1>16. CASE CalibFourthSel
  BY <1>16, PlainReturn DEF CalibFourthSel, Waiting, MenuInv
<1>17. CASE DelaySel
  BY <1>17 DEF DelaySel, MenuInv, CallersInv, LevelInv, ReturnInv, KeysMeanOpen, PathIsTheWay,
               Waiting
<1>18. CASE DelayBack
  <2>1. Call(0, Frame("MainMenu", 1, "none")) /\ stack # <<>> /\ at = "key"
    BY <1>18 DEF DelayBack, Menu, Waiting
  <2> QED
    BY <1>0, <1>18, <2>1, PlainCall DEF DelayBack, control
<1>19. CASE SetTimeSel
  BY <1>19, SetTimeSelInv
<1>20. CASE SetTimeBack
  BY <1>20, PlainReturn DEF SetTimeBack, Waiting, MenuInv
<1>21. CASE SubTimeSel
  <2>1. Call(0, Frame("SetTimeMenu", 1, "none")) /\ stack # <<>> /\ at = "key"
    BY <1>21 DEF SubTimeSel, Menu, Waiting
  <2> QED
    BY <1>0, <1>21, <2>1, PlainCall DEF SubTimeSel
<1>22. CASE SubTimeBack
  <2>1. Call(0, Frame("SetTimeMenu", 1, "none")) /\ stack # <<>> /\ at = "key"
    BY <1>22 DEF SubTimeBack, Menu, Waiting
  <2> QED
    BY <1>0, <1>22, <2>1, PlainCall DEF SubTimeBack, control
<1> QED
  BY <1>1, <1>2, <1>3, <1>4, <1>5, <1>6, <1>7, <1>8, <1>9, <1>10, <1>11, <1>12, <1>13, <1>14,
     <1>15, <1>16, <1>17, <1>18, <1>19, <1>20, <1>21, <1>22 DEF Key

\* What goes on by itself.
LEMMA StepMenuInv == MenuInv /\ Step => MenuInv'
<1> SUFFICES ASSUME MenuInv, Step PROVE MenuInv'
  OBVIOUS
<1>1. CASE Loop
  BY <1>1 DEF Loop, MenuInv, IsStack, CallersInv, LevelInv, ReturnInv, KeysMeanOpen, PathIsTheWay,
              Waiting, Top
<1>2. CASE BackInMain
  <2>1. stack # <<>> /\ DOMAIN path' = 0..4 /\ path' = path /\ ~returning'
    BY <1>2 DEF BackInMain, Back, MenuInv
  <2>2. CASE ~showStatus
    BY <1>2, <2>1, <2>2, PlainReturn DEF BackInMain
  <2>3. CASE showStatus
    <3>1. /\ stack' = WithTop(Frame(Top.f, 1, Top.type)) /\ at' = "key" /\ showStatus'
          /\ Top.f = "MainMenu"
      BY <1>2, <2>3 DEF BackInMain, Back, WithN
    <3>2. /\ IsStack(stack') /\ stack' # <<>> /\ CallersInv'
          /\ Top'.f = "MainMenu"
      BY <2>1, <3>1, ReplaceCallers DEF MenuInv
    <3>3. LevelInv' /\ PathIsTheWay'
      BY <3>2 DEF LevelInv, PathIsTheWay, Waiting
    <3> QED
      BY <2>1, <3>1, <3>2, <3>3 DEF MenuInv, ReturnInv, KeysMeanOpen
  <2> QED
    BY <2>2, <2>3
<1>3. CASE BackAtEnd
  <2>1. /\ stack # <<>> /\ Top.f # "MainMenu" /\ DOMAIN path' = 0..4
        /\ returning' \/ ~showStatus'
    BY <1>3 DEF BackAtEnd, Back, control, MenuInv, ReturnInv
  <2> QED
    BY <1>3, <2>1, PlainReturn DEF BackAtEnd
<1>4. CASE BackInLoop
  <2>1. /\ stack # <<>> /\ Top.f # "MainMenu" /\ DOMAIN path' = 0..4
        /\ (returning' \/ ~showStatus') /\ (returning \/ ~showStatus)
    BY <1>4 DEF BackInLoop, Back, control, MenuInv, ReturnInv
  <2> QED
    BY <1>4, <2>1, PlainReturn DEF BackInLoop
<1> QED
  BY <1>1, <1>2, <1>3, <1>4 DEF Step

LEMMA SameMenuInv == MenuInv /\ UNCHANGED vars => MenuInv'
BY DEF vars, MenuInv, IsStack, CallersInv, LevelInv, ReturnInv, KeysMeanOpen, PathIsTheWay,
       Waiting, Top

LEMMA MenuInvHolds == Spec => []MenuInv
BY InitMenuInv, KeyMenuInv, StepMenuInv, SameMenuInv, PTL DEF Spec, Next

\* Whoever waits for a key does so in an open menu with nothing left to return from,
\* however deep the menus have called each other (PollKey in Menu.h).
THEOREM KeysMeanOpenHolds == Spec => []KeysMeanOpen
<1>1. MenuInv => KeysMeanOpen
  BY DEF MenuInv
<1> QED
  BY <1>1, MenuInvHolds, PTL

\* What the globals path and level hand on to Assign and to the time menu is what was
\* chosen in the menus that led there (Menu.h:61-66, 124-163, 365-414).
THEOREM PathIsTheWayHolds == Spec => []PathIsTheWay
<1>1. MenuInv => PathIsTheWay
  BY DEF MenuInv
<1> QED
  BY <1>1, MenuInvHolds, PTL

-----------------------------------------------------------------------------
(* Types *)

\* The least and the greatest of some indices.
LEMMA LeastIndex ==
    ASSUME NEW S \in SUBSET Nat, S # {}
    PROVE  /\ \E x \in S : \A y \in S : x =< y
           /\ Min(S) \in S
<1>0. PICK R : R = OpToRel(<, Nat)
  OBVIOUS
<1>1. R = {ss \in Nat \X Nat : ss[1] < ss[2]}
  BY <1>0, Zenon DEF OpToRel
<1>2. IsWellFoundedOn(R, Nat)
  BY <1>0, NatLessThanWellFounded
<1>3. PICK x \in S : \A y \in S : ~ (<<y, x>> \in R)
  BY <1>2, WFMin
<1>4. \A y \in S : x =< y
  <2> TAKE y \in S
  <2>1. x \in Nat /\ y \in Nat /\ ~ (<<y, x>> \in R)
    BY <1>3
  <2>2. ~ (<<y, x>> \in {ss \in Nat \X Nat : ss[1] < ss[2]})
    BY <1>1, <2>1
  <2>3. ~ (y < x)
    BY <2>1, <2>2
  <2> QED
    BY <2>1, <2>3
<1> QED
  BY <1>4 DEF Min

LEMMA GreatestIndex ==
    ASSUME NEW m \in Nat, NEW S \in SUBSET (0..m), S # {}
    PROVE  Max(S) \in S
<1>1. PICK U : U = {k \in 0..m : m - k \in S}
  OBVIOUS
<1>2. \A y \in S : m - y \in U
  <2> TAKE y \in S
  <2>1. y \in 0..m
    OBVIOUS
  <2>2. m - y \in 0..m /\ m - (m - y) = y
    BY <2>1
  <2> QED
    BY <1>1, <2>2
<1>3. U \in SUBSET Nat /\ U # {}
  <2>1. \A k \in U : k \in Nat
    BY <1>1
  <2>2. U # {}
    BY <1>2
  <2> QED
    BY <2>1, <2>2
<1>4. PICK x \in U : \A y \in U : x =< y
  BY <1>3, LeastIndex
<1>5. m - x \in S
  BY <1>1
<1>6. \A y \in S : m - x >= y
  <2> TAKE y \in S
  <2>1. y \in 0..m /\ x \in 0..m /\ x =< m - y
    BY <1>1, <1>2, <1>4
  <2> QED
    BY <2>1
<1> QED
  BY <1>5, <1>6 DEF Max

\* The types of the variables, and of the choices that are used as indices.
PathInv ==
    /\ Waiting("PinConectMenu") => path[1] \in Tables
    /\ Waiting("TypeMenu") => path[1] \in Tables /\ path[2] \in Pins(path[1])
TypeInv == TypeOK /\ PathInv

Kinds == {"PH", "EC", "none"}
\* The part of TypeOK that speaks of no frame.
RestOK ==
    /\ showStatus \in BOOLEAN /\ returning \in BOOLEAN /\ firstRun \in BOOLEAN
    /\ level \in 0..3 /\ path \in [0..4 -> 0..6]
    /\ DOMAIN types = Tables /\ \A t \in Tables : types[t] \in [Pins(t) -> TypesOf(t)]

LEMMA TopTyped ==
    ASSUME IsStack(stack), stack # <<>>, FramesOK
    PROVE  Top.n \in 0..255 /\ Top.type \in Kinds
<1>1. Len(stack) \in DOMAIN stack /\ Top = stack[Len(stack)]
  BY TopOfStack DEF Top
<1> QED
  BY <1>1 DEF FramesOK, Kinds

LEMMA CallFrames ==
    ASSUME IsStack(stack), stack # <<>>, FramesOK, NEW n \in 0..255, NEW f,
           NEW m \in 0..255, NEW type \in Kinds, Call(n, Frame(f, m, type))
    PROVE  /\ FramesOK' /\ stack' # <<>> /\ Len(stack') <= MaxDepth
           /\ Top'.f = f /\ Top'.n = m /\ Top'.type = type
<1>1. Len(stack) \in Nat \ {0}
  BY TopOfStack
<1>0. \A k \in 1..Len(stack) : stack[k].n \in 0..255 /\ stack[k].type \in Kinds
  BY TopOfStack DEF FramesOK, Kinds
<1>2. /\ IsStack(stack') /\ Len(stack') = Len(stack) + 1
      /\ stack'[Len(stack) + 1] = Frame(f, m, type)
      /\ stack'[Len(stack)] = Frame(Top.f, n, Top.type)
      /\ \A k \in 1..(Len(stack) - 1) : stack'[k] = stack[k]
  BY CallTop
<1>3. stack' # <<>>
  BY <1>1, <1>2
<1>4. DOMAIN stack' = 1..(Len(stack) + 1)
  BY <1>2, <1>3, TopOfStack
<1>5. FramesOK'
  <2> SUFFICES ASSUME NEW k \in 1..(Len(stack) + 1)
               PROVE  stack'[k].n \in 0..255 /\ stack'[k].type \in Kinds
    BY <1>4 DEF FramesOK, Kinds
  <2>1. CASE k = Len(stack) + 1
    BY <1>2, <2>1 DEF Frame
  <2>2. CASE k = Len(stack)
    <3>1. Top.n \in 0..255 /\ Top.type \in Kinds
      BY TopTyped
    <3>2. stack'[k] = Frame(Top.f, n, Top.type)
      BY <1>2, <2>2
    <3>3. stack'[k].n = n /\ stack'[k].type = Top.type
      BY <3>2 DEF Frame
    <3> QED
      BY <3>1, <3>3
  <2>3. CASE k \in 1..(Len(stack) - 1)
    BY <1>0, <1>1, <1>2, <2>3
  <2> QED
    BY <1>1, <2>1, <2>2, <2>3
<1>6. Len(stack') <= MaxDepth
  BY <1>1, <1>2, MaxDepthAssumption DEF Call
<1>7. Top' = Frame(f, m, type)
  BY <1>2, <1>3 DEF Top, Last
<1> QED
  BY <1>3, <1>5, <1>6, <1>7 DEF Frame

LEMMA ReturnFrames ==
    ASSUME IsStack(stack), stack # <<>>, FramesOK, Len(stack) <= MaxDepth, Return
    PROVE  FramesOK' /\ Len(stack') <= MaxDepth
<1>1. Len(stack) \in Nat \ {0}
  BY TopOfStack
<1>0. \A k \in 1..Len(stack) : stack[k].n \in 0..255 /\ stack[k].type \in Kinds
  BY TopOfStack DEF FramesOK, Kinds
<1>2. /\ IsStack(stack') /\ Len(stack') = Len(stack) - 1
      /\ \A k \in 1..(Len(stack) - 1) : stack'[k] = stack[k]
  BY ReturnTop DEF Return
<1>3. DOMAIN stack' = 1..(Len(stack) - 1)
  BY <1>1, <1>2 DEF IsStack
<1> QED
  <2>1. FramesOK'
    <3> SUFFICES ASSUME NEW k \in 1..(Len(stack) - 1)
                 PROVE  stack'[k].n \in 0..255 /\ stack'[k].type \in Kinds
      BY <1>3 DEF FramesOK, Kinds
    <3>1. k \in 1..Len(stack) /\ stack'[k] = stack[k]
      BY <1>1, <1>2
    <3> QED
      BY <1>0, <3>1
  <2>2. Len(stack') <= MaxDepth
    BY <1>1, <1>2, MaxDepthAssumption
  <2> QED
    BY <2>1, <2>2

LEMMA ReplaceFrames ==
    ASSUME IsStack(stack), stack # <<>>, FramesOK, Len(stack) <= MaxDepth, NEW f,
           NEW m \in 0..255, NEW type \in Kinds, stack' = WithTop(Frame(f, m, type))
    PROVE  /\ FramesOK' /\ stack' # <<>> /\ Len(stack') <= MaxDepth
           /\ Top'.f = f /\ Top'.n = m /\ Top'.type = type
<1>1. Len(stack) \in Nat \ {0}
  BY TopOfStack
<1>0. \A k \in 1..Len(stack) : stack[k].n \in 0..255 /\ stack[k].type \in Kinds
  BY TopOfStack DEF FramesOK, Kinds
<1>2. /\ IsStack(stack') /\ Len(stack') = Len(stack)
      /\ stack'[Len(stack)] = Frame(f, m, type)
      /\ \A k \in 1..(Len(stack) - 1) : stack'[k] = stack[k]
  BY ReplaceTop
<1>3. stack' # <<>>
  BY <1>1, <1>2
<1>4. DOMAIN stack' = 1..Len(stack)
  BY <1>2, <1>3, TopOfStack
<1>5. FramesOK'
  <2> SUFFICES ASSUME NEW k \in 1..Len(stack)
               PROVE  stack'[k].n \in 0..255 /\ stack'[k].type \in Kinds
    BY <1>4 DEF FramesOK, Kinds
  <2>1. CASE k = Len(stack)
    BY <1>2, <2>1 DEF Frame
  <2>2. CASE k \in 1..(Len(stack) - 1)
    BY <1>0, <1>1, <1>2, <2>2
  <2> QED
    BY <1>1, <2>1, <2>2
<1>6. Top' = Frame(f, m, type)
  BY <1>2, <1>3 DEF Top, Last
<1> QED
  BY <1>2, <1>3, <1>5, <1>6 DEF Frame

LEMMA TypedCall ==
    ASSUME MenuInv, TypeInv, stack # <<>>, NEW n \in 0..255, NEW f,
           NEW m \in 0..255, NEW type \in Kinds, Call(n, Frame(f, m, type)),
           at' \in {"key", "back"}, RestOK',
           f \in Lists => m \in 1..(Length(f)' - 1),
           f = "PinConectMenu" => path'[1] \in Tables,
           f = "TypeMenu" => path'[1] \in Tables /\ path'[2] \in Pins(path'[1])
    PROVE  TypeInv'
<1>1. /\ FramesOK' /\ stack' # <<>> /\ Len(stack') <= MaxDepth
      /\ Top'.f = f /\ Top'.n = m /\ Top'.type = type
  BY CallFrames DEF MenuInv, TypeInv, TypeOK
<1>2. (Top.f \in Lists => Top.n \in 1..(Length(Top.f) - 1))'
  BY <1>1 DEF Length
<1>3. TypeOK'
  BY <1>1, <1>2 DEF TypeOK, RestOK
<1>4. PathInv'
  BY <1>1 DEF PathInv, Waiting, Pins
<1> QED
  BY <1>3, <1>4 DEF TypeInv

LEMMA TypedReturn ==
    ASSUME MenuInv, TypeInv, stack # <<>>, Return, RestOK'
    PROVE  TypeInv'
<1>1. FramesOK' /\ Len(stack') <= MaxDepth /\ at' = "back"
  BY ReturnFrames DEF MenuInv, TypeInv, TypeOK, Return
<1>2. TypeOK' /\ PathInv'
  BY <1>1 DEF TypeOK, PathInv, RestOK, Waiting
<1> QED
  BY <1>2 DEF TypeInv

LEMMA TypedReplace ==
    ASSUME MenuInv, TypeInv, stack # <<>>, NEW f, NEW m \in 0..255, NEW type \in Kinds,
           f = Top.f, stack' = WithTop(Frame(f, m, type)),
           at = "key" \/ Top.f = "MainMenu", at' = "key", path' = path, RestOK',
           f \in Lists => m \in 1..(Length(f) - 1)
    PROVE  TypeInv'
<1>1. /\ FramesOK' /\ stack' # <<>> /\ Len(stack') <= MaxDepth
      /\ Top'.f = f /\ Top'.n = m /\ Top'.type = type
  BY ReplaceFrames DEF MenuInv, TypeInv, TypeOK
<1>2. (Top.f \in Lists => Top.n \in 1..(Length(Top.f) - 1))'
  BY <1>1 DEF Length
<1>3. TypeOK'
  BY <1>1, <1>2 DEF TypeOK, RestOK
<1>4. PathInv'
  BY <1>1 DEF PathInv, TypeInv, Waiting, Pins
<1> QED
  BY <1>3, <1>4 DEF TypeInv

-----------------------------------------------------------------------------
(* The calibration *)

LEMMA Sizes ==
    /\ SizeofAnalog \in 2..5 /\ PinMenuLength[2] \in 2..5
    /\ MaxIndex \in 4..10 /\ MaxIndex = SizeofAnalog + PinMenuLength[2]
    /\ Outside \subseteq 0..(SizeofAnalog - 1)
    /\ Pins(1) = 1..(SizeofAnalog - 1) /\ Pins(2) = 1..(PinMenuLength[2] - 1)
BY MenuLengthAssumption, OutsideAssumption DEF SizeofAnalog, MaxIndex, Pins, Tables

\* Whatever CalibMenu takes for a pin is one of the indices it steps through.
LEMMA FoundIndex ==
    ASSUME NEW i \in Nat
    PROVE  CheckType(i) # "none" <=> i \in Found
<1>1. CheckType(i) # "none" <=> Clibrateable(i)
  BY DEF CheckType, Clibrateable
<1>2. Clibrateable(i) => i \in 0..(MaxIndex - 1)
  <2> SUFFICES ASSUME Clibrateable(i), i >= MaxIndex PROVE FALSE
    BY Sizes
  <2>1. ~ (i < SizeofAnalog) /\ i - SizeofAnalog \notin Pins(2) /\ i \notin Outside
    BY Sizes
  <2>2. Digital(i) = 1
    BY <2>1 DEF Digital
  <2> QED
    BY <2>1, <2>2 DEF Clibrateable, EC
<1> QED
  BY <1>1, <1>2 DEF Found

LEMMA MoveFound ==
    ASSUME NEW n \in Found
    PROVE  IndexUp(n) \in Found /\ IndexDown(n) \in Found
<1>0. \A i \in Found : i \in 0..10
  BY Sizes DEF Found
<1>1. Found \in SUBSET (0..10) /\ Found \in SUBSET Nat
  BY <1>0
<1>2. Min(Found) \in Found /\ Max(Found) \in Found
  BY <1>1, LeastIndex, GreatestIndex
<1>3. \A S \in SUBSET Found : S # {} => Min(S) \in S /\ Max(S) \in S
  <2> SUFFICES ASSUME NEW S \in SUBSET Found, S # {} PROVE Min(S) \in S /\ Max(S) \in S
    OBVIOUS
  <2>1. S \in SUBSET Nat /\ S \in SUBSET (0..10)
    BY <1>1
  <2> QED
    BY <2>1, LeastIndex, GreatestIndex
<1>4. IndexUp(n) \in Found
  <2> DEFINE S == {j \in Found : j > n}
  <2>1. CASE \E j \in Found : j > n
    <3>1. S \in SUBSET Found /\ S # {}
      BY <2>1
    <3>2. Min(S) \in S
      BY <3>1, <1>3
    <3> QED
      BY <2>1, <3>2 DEF IndexUp
  <2>2. CASE ~ \E j \in Found : j > n
    BY <1>2, <2>2 DEF IndexUp
  <2> QED
    BY <2>1, <2>2
<1>5. IndexDown(n) \in Found
  <2> DEFINE S == {j \in Found : j < n}
  <2>1. CASE \E j \in Found \ {0} : j < n
    <3>1. S \in SUBSET Found /\ S # {}
      BY <2>1
    <3>2. Max(S) \in S
      BY <3>1, <1>3
    <3> QED
      BY <2>1, <3>2 DEF IndexDown
  <2>2. CASE ~ \E j \in Found \ {0} : j < n
    BY <1>2, <2>2 DEF IndexDown
  <2> QED
    BY <2>1, <2>2
<1> QED
  BY <1>4, <1>5

LEMMA FirstTyped == FirstIndex \in 0..10
<1>0. (\A i \in Found : i \in 0..10) /\ MaxIndex \in 0..10
  BY Sizes DEF Found
<1>1. (Found \ {0}) \cup {MaxIndex} \in SUBSET (0..10)
  BY <1>0
<1>2. (Found \ {0}) \cup {MaxIndex} \in SUBSET Nat /\ (Found \ {0}) \cup {MaxIndex} # {}
  BY <1>1
<1> QED
  BY <1>1, <1>2, LeastIndex DEF FirstIndex

LEMMA PinFound ==
    ASSUME NEW i \in Found
    PROVE  PinOf(i, CheckType(i)) \in 0..255 /\ HasType(PinOf(i, CheckType(i)), CheckType(i))
<1>1. i \in 0..9 /\ Clibrateable(i)
  BY Sizes DEF Found
<1>2. CASE CheckType(i) = "PH"
  <2>1. i < SizeofAnalog /\ Analog(i) = PH
    BY <1>2 DEF CheckType
  <2>2. i \in Pins(1) /\ types[1][i] = PH
    BY <2>1 DEF Analog, PH
  <2>3. PinOf(i, "PH") = i - 1 /\ i - 1 \in 0..255 /\ (i - 1) + 1 = i
    BY <1>1, <2>2, Sizes DEF PinOf
  <2> QED
    BY <1>2, <2>2, <2>3 DEF HasType
<1>3. CASE CheckType(i) # "PH"
  <2>1. CheckType(i) = "EC" /\ Digital(i) = EC
    BY <1>1, <1>3 DEF CheckType, Clibrateable
  <2>2. PinOf(i, "EC") = (i - SizeofAnalog - 1) % 256
    BY DEF PinOf
  <2>3. (i - SizeofAnalog - 1) % 256 \in 0..255
    BY <1>1, Sizes
  <2>4. CASE i - SizeofAnalog \in Pins(2)
    <3>1. types[2][i - SizeofAnalog] = EC
      BY <2>1, <2>4 DEF Digital
    <3>2. i - SizeofAnalog - 1 \in 0..255
      BY <1>1, <2>4, Sizes
    <3>3. \A x \in 0..255 : x % 256 = x
      OBVIOUS
    <3>4. PinOf(i, "EC") = i - SizeofAnalog - 1
      BY <2>2, <3>2, <3>3
    <3>5. PinOf(i, "EC") + 1 = i - SizeofAnalog
      BY <1>1, <3>4, Sizes
    <3> QED
      BY <2>1, <2>2, <2>3, <2>4, <3>1, <3>5 DEF HasType
  <2>5. CASE i - SizeofAnalog \notin Pins(2)
    <3>1. i \in Outside
      BY <2>1, <2>5 DEF Digital, EC
    <3> QED
      BY <2>1, <2>2, <2>3, <3>1 DEF HasType
  <2> QED
    BY <2>4, <2>5
<1> QED
  BY <1>2, <1>3

\* What each frame of a calibration says, and that a calibration calls nothing else.
CalibFrames == {"CalibMenu"} \cup Steps
FrameTrue(frame) ==
    /\ frame.f = "CalibMenu" => frame.type = CheckType(frame.n)
    /\ frame.f \in Steps => HasType(frame.n, frame.type)
CalibInv ==
    /\ \A k \in 1..Len(stack) : FrameTrue(stack[k])
    /\ Waiting("CalibMenu") => Top.type # "none"
    /\ \A j, k \in 1..Len(stack) :
          j < k /\ stack[j].f \in CalibFrames => stack[k].f \in CalibFrames

LEMMA SameTypes ==
    ASSUME types' = types
    PROVE  \A frame : FrameTrue(frame) => FrameTrue(frame)'
<1>1. \A n : CheckType(n)' = CheckType(n)
  BY DEF CheckType, Analog, Digital
<1>2. \A n, type : HasType(n, type)' <=> HasType(n, type)
  BY DEF HasType
<1> QED
  BY <1>1, <1>2 DEF FrameTrue

LEMMA CalibAfterCall ==
    ASSUME MenuInv, CalibInv, stack # <<>>, types' = types,
           NEW n, NEW f, NEW m, NEW type, Call(n, Frame(f, m, type)),
           Top.f \in CalibFrames => n = Top.n /\ f \in CalibFrames,
           FrameTrue(Frame(f, m, type)),
           f = "CalibMenu" /\ at' = "key" => type # "none"
    PROVE  CalibInv'
<1>1. Len(stack) \in Nat \ {0} /\ Top = stack[Len(stack)]
  BY TopOfStack DEF MenuInv, Top
<1>2. /\ IsStack(stack') /\ Len(stack') = Len(stack) + 1
      /\ stack'[Len(stack) + 1] = Frame(f, m, type)
      /\ stack'[Len(stack)] = Frame(Top.f, n, Top.type)
      /\ \A k \in 1..(Len(stack) - 1) : stack'[k] = stack[k]
  BY CallTop DEF MenuInv
<1>3. Top' = Frame(f, m, type)
  BY <1>1, <1>2 DEF Top, Last
<1>4. stack'[Len(stack) + 1].f = f /\ \A k \in 1..Len(stack) : stack'[k].f = stack[k].f
  BY <1>1, <1>2 DEF Frame
<1>5. (Waiting("CalibMenu") => Top.type # "none")'
  BY <1>3 DEF Waiting, Frame
<1>6. FrameTrue(Frame(Top.f, n, Top.type))
  <2>1. CASE Top.f \in CalibFrames
    <3>1. Top = Frame(Top.f, Top.n, Top.type)
      BY <1>1 DEF MenuInv, IsStack
    <3>2. FrameTrue(Top)
      BY <1>1 DEF CalibInv
    <3> QED
      BY <2>1, <3>1, <3>2
  <2>2. CASE Top.f \notin CalibFrames
    BY <2>2 DEF FrameTrue, CalibFrames, Frame
  <2> QED
    BY <2>1, <2>2
<1>7. \A k \in 1..(Len(stack) + 1) : FrameTrue(stack'[k])
  BY <1>1, <1>2, <1>6 DEF CalibInv
<1>8. \A k \in 1..(Len(stack) + 1) : FrameTrue(stack[k])'
  BY <1>7, SameTypes
<1>9. \A j, k \in 1..(Len(stack) + 1) :
         j < k /\ stack'[j].f \in CalibFrames => stack'[k].f \in CalibFrames
  <2> SUFFICES ASSUME NEW j \in 1..(Len(stack) + 1), NEW k \in 1..(Len(stack) + 1),
                      j < k, stack'[j].f \in CalibFrames
               PROVE  stack'[k].f \in CalibFrames
    OBVIOUS
  <2>1. j \in 1..Len(stack) /\ stack[j].f \in CalibFrames
    BY <1>1, <1>4
  <2>2. Top.f \in CalibFrames
    BY <1>1, <2>1 DEF CalibInv
  <2>3. CASE k = Len(stack) + 1
    BY <1>4, <2>2, <2>3
  <2>4. CASE k \in 1..Len(stack)
    BY <1>4, <2>1, <2>4 DEF CalibInv
  <2> QED
    BY <1>1, <2>3, <2>4
<1> QED
  BY <1>2, <1>5, <1>8, <1>9 DEF CalibInv

\* A return with other types is none from a calibration.
LEMMA CalibAfterReturn ==
    ASSUME MenuInv, CalibInv, stack # <<>>, Return, types' = types \/ Top.f \notin CalibFrames
    PROVE  CalibInv'
<1>1. Len(stack) \in Nat \ {0} /\ Top = stack[Len(stack)]
  BY TopOfStack DEF MenuInv, Top
<1>2. /\ IsStack(stack') /\ Len(stack') = Len(stack) - 1
      /\ \A k \in 1..(Len(stack) - 1) : stack'[k] = stack[k]
  BY ReturnTop DEF MenuInv, Return
<1>3. \A k \in 1..(Len(stack) - 1) : FrameTrue(stack'[k])
  BY <1>1, <1>2 DEF CalibInv
<1>4. \A k \in 1..(Len(stack) - 1) : FrameTrue(stack[k])'
  <2>1. CASE types' = types
    BY <1>3, <2>1, SameTypes
  <2>2. CASE Top.f \notin CalibFrames
    <3>1. \A k \in 1..(Len(stack) - 1) : stack'[k].f \notin CalibFrames
      BY <1>1, <1>2, <2>2 DEF CalibInv
    <3> QED
      BY <3>1 DEF FrameTrue, CalibFrames
  <2> QED
    BY <2>1, <2>2
<1>5. \A j, k \in 1..(Len(stack) - 1) :
         j < k /\ stack'[j].f \in CalibFrames => stack'[k].f \in CalibFrames
  BY <1>1, <1>2 DEF CalibInv
<1>6. ~ Waiting("CalibMenu")'
  BY DEF Return, Waiting
<1> QED
  BY <1>2, <1>4, <1>5, <1>6 DEF CalibInv

LEMMA CalibAfterReplace ==
    ASSUME MenuInv, CalibInv, stack # <<>>, types' = types,
           NEW f, NEW m, NEW type, f = Top.f, stack' = WithTop(Frame(f, m, type)),
           FrameTrue(Frame(f, m, type)), f = "CalibMenu" => type # "none"
    PROVE  CalibInv'
<1>1. Len(stack) \in Nat \ {0} /\ Top = stack[Len(stack)]
  BY TopOfStack DEF MenuInv, Top
<1>2. /\ IsStack(stack') /\ Len(stack') = Len(stack)
      /\ stack'[Len(stack)] = Frame(f, m, type)
      /\ \A k \in 1..(Len(stack) - 1) : stack'[k] = stack[k]
  BY ReplaceTop DEF MenuInv
<1>3. Top' = Frame(f, m, type)
  BY <1>1, <1>2 DEF Top, Last
<1>4. \A k \in 1..Len(stack) : FrameTrue(stack'[k]) /\ stack'[k].f = stack[k].f
  BY <1>1, <1>2 DEF CalibInv, Frame
<1>5. \A k \in 1..Len(stack) : FrameTrue(stack[k])'
  BY <1>4, SameTypes
<1>6. (Waiting("CalibMenu") => Top.type # "none")'
  BY <1>3 DEF Waiting, Frame
<1> QED
  BY <1>2, <1>4, <1>5, <1>6 DEF CalibInv

-----------------------------------------------------------------------------
(* Both, step by step. *)

Typed == MenuInv /\ TypeInv /\ CalibInv

LEMMA TopTrue ==
    ASSUME Typed, stack # <<>>
    PROVE  Top.n \in 0..255 /\ Top.type \in Kinds /\ FrameTrue(Top) /\ RestOK
<1>1. Len(stack) \in 1..Len(stack) /\ Top = stack[Len(stack)]
  BY TopOfStack DEF Typed, MenuInv, Top
<1> QED
  BY <1>1, TopTyped DEF Typed, MenuInv, TypeInv, TypeOK, RestOK, CalibInv

\* A call that has nothing to do with a calibration.
LEMMA MenuCall ==
    ASSUME Typed, stack # <<>>, Top.f \notin CalibFrames, NEW n \in 0..255,
           NEW f, f \notin CalibFrames, NEW m \in 0..255, Call(n, Frame(f, m, "none")),
           at' = at, RestOK', types' = types,
           f \in Lists => m \in 1..(Length(f)' - 1),
           f = "PinConectMenu" => path'[1] \in Tables,
           f = "TypeMenu" => path'[1] \in Tables /\ path'[2] \in Pins(path'[1])
    PROVE  TypeInv' /\ CalibInv'
<1>1. at' \in {"key", "back"}
  BY DEF Typed, MenuInv, ReturnInv
<1>2. TypeInv'
  BY <1>1, TypedCall DEF Typed, Kinds
<1>3. FrameTrue(Frame(f, m, "none")) /\ f # "CalibMenu"
  BY DEF FrameTrue, CalibFrames, Frame
<1>4. CalibInv'
  BY <1>3, CalibAfterCall DEF Typed
<1> QED
  BY <1>2, <1>4

LEMMA CheckTypeKind == \A i : CheckType(i) \in Kinds
BY DEF CheckType, Kinds

LEMMA CalibTyped ==
    ASSUME Typed, stack # <<>>, NEW n \in 0..255, Top.f \in CalibFrames => n = Top.n,
           CalibMenu(n)
    PROVE  TypeInv' /\ CalibInv'
<1>1. PICK m, type : m = FirstIndex /\ type = CheckType(FirstIndex)
  OBVIOUS
<1>2. m \in 0..255 /\ type \in Kinds
  BY <1>1, FirstTyped, CheckTypeKind
<1>3. Call(n, Frame("CalibMenu", m, type))
  BY <1>1 DEF CalibMenu
<1>4. /\ at' \in {"key", "back"}
      /\ at' = "key" => type # "none"
      /\ types' = types /\ RestOK'
  BY <1>1, TopTrue DEF CalibMenu, RestOK
<1>5. TypeInv'
  BY <1>2, <1>3, <1>4, TypedCall DEF Typed, Lists
<1>6. FrameTrue(Frame("CalibMenu", m, type))
  BY <1>1 DEF FrameTrue, Frame, Steps, NextStep
<1>7. CalibInv'
  BY <1>3, <1>4, <1>6, CalibAfterCall DEF Typed, CalibFrames
<1> QED
  BY <1>5, <1>7

\* A pin that can be calibrated is shown, and so is one of those found.
LEMMA ShownFound ==
    ASSUME Typed, Waiting("CalibMenu")
    PROVE  Top.n \in Found /\ Top.type = CheckType(Top.n)
<1>1. Top.n \in 0..255 /\ Top.type = CheckType(Top.n)
  BY TopTrue DEF Waiting, FrameTrue
<1>2. CheckType(Top.n) # "none"
  BY <1>1 DEF Typed, CalibInv
<1> QED
  BY <1>1, <1>2, FoundIndex

LEMMA ReturnTyped ==
    ASSUME Typed, stack # <<>>, Return, RestOK', types' = types \/ Top.f \notin CalibFrames
    PROVE  TypeInv' /\ CalibInv'
BY TypedReturn, CalibAfterReturn DEF Typed

LEMMA SameTyped ==
    ASSUME TypeInv, CalibInv, UNCHANGED vars
    PROVE  TypeInv' /\ CalibInv'
<1>1. UNCHANGED <<stack, at, showStatus, returning, firstRun, level, path, types>>
  BY DEF vars
<1>2. Top' = Top /\ (\A f : Length(f)' = Length(f))
  BY <1>1 DEF Top, Length
<1>3. TypeInv'
  BY <1>1, <1>2 DEF TypeInv, TypeOK, FramesOK, PathInv, Waiting
<1>4. CalibInv'
  BY <1>1, <1>2, SameTypes DEF CalibInv, Waiting
<1> QED
  BY <1>3, <1>4

LEMMA HighlightTyped == ASSUME Typed, Highlight PROVE TypeInv' /\ CalibInv'
<1>1. PICK n : /\ n \in {Down(Top.n, Length(Top.f)), Up(Top.n, Length(Top.f))}
               /\ stack' = WithTop(Frame(Top.f, n, Top.type))
  BY DEF Highlight, WithN
<1>2. /\ stack # <<>> /\ at = "key" /\ at' = "key" /\ path' = path /\ types' = types
      /\ Top.f \in Lists /\ Top.f \notin CalibFrames
  BY DEF Highlight, Lists, CalibFrames, Steps, NextStep
<1>3. Length(Top.f) \in 2..7
  BY <1>2, MenuLengthAssumption DEF Typed, TypeInv, PathInv, Waiting, Lists, Length
<1>4. Top.n \in 1..(Length(Top.f) - 1)
  BY <1>2 DEF Typed, TypeInv, TypeOK
<1>5. n \in 1..(Length(Top.f) - 1)
  BY <1>1, <1>3, <1>4 DEF Down, Up
<1>6. n \in 0..255 /\ Top.type \in Kinds /\ RestOK'
  <2>1. n \in 0..255
    BY <1>3, <1>5
  <2>2. Top.type \in Kinds /\ RestOK
    BY <1>2, TopTrue
  <2>3. RestOK'
    BY <2>2 DEF Highlight, control, RestOK
  <2> QED
    BY <2>1, <2>2, <2>3
<1>7. TypeInv'
  BY <1>1, <1>2, <1>5, <1>6, TypedReplace DEF Typed
<1>8. FrameTrue(Frame(Top.f, n, Top.type)) /\ Top.f # "CalibMenu"
  BY <1>2 DEF FrameTrue, CalibFrames, Frame
<1>9. CalibInv'
  BY <1>1, <1>2, <1>8, CalibAfterReplace DEF Typed
<1> QED
  BY <1>7, <1>9

LEMMA CalibMoveTyped == ASSUME Typed, CalibMove PROVE TypeInv' /\ CalibInv'
<1>1. PICK i : /\ i \in {IndexDown(Top.n), IndexUp(Top.n)}
               /\ stack' = WithTop(Frame("CalibMenu", i, CheckType(i)))
  BY DEF CalibMove
<1>2. i \in Found
  BY <1>1, ShownFound, MoveFound DEF CalibMove
<1>3. i \in 0..255
  BY <1>2, Sizes DEF Found
<1>4. CheckType(i) # "none" /\ CheckType(i) \in Kinds
  BY <1>2, <1>3, FoundIndex, CheckTypeKind
<1>5. PICK type : type = CheckType(i)
  OBVIOUS
<1>6. /\ stack # <<>> /\ Top.f = "CalibMenu" /\ at = "key" /\ at' = "key"
      /\ path' = path /\ types' = types /\ RestOK'
  BY TopTrue DEF CalibMove, Waiting, control, RestOK
<1>7. TypeInv'
  BY <1>1, <1>3, <1>4, <1>5, <1>6, TypedReplace DEF Typed, Lists
<1>8. FrameTrue(Frame("CalibMenu", i, type))
  BY <1>5 DEF FrameTrue, Frame, Steps, NextStep
<1>9. CalibInv'
  BY <1>1, <1>4, <1>5, <1>6, <1>8, CalibAfterReplace DEF Typed
<1> QED
  BY <1>7, <1>9

LEMMA CalibSelTyped == ASSUME Typed, CalibSel PROVE TypeInv' /\ CalibInv'
<1>1. Top.n \in Found /\ Top.type = CheckType(Top.n)
  BY ShownFound DEF CalibSel
<1>2. PICK pin, type : pin = PinOf(Top.n, Top.type) /\ type = Top.type
  OBVIOUS
<1>3. pin \in 0..255 /\ HasType(pin, type)
  BY <1>1, <1>2, PinFound
<1>4. /\ stack # <<>> /\ Call(Top.n, Frame("CalibFirstStep", pin, type))
      /\ at' = "key" /\ types' = types /\ RestOK' /\ Top.n \in 0..255 /\ type \in Kinds
  BY <1>2, TopTrue DEF CalibSel, Waiting, control, RestOK
<1>5. TypeInv'
  BY <1>3, <1>4, TypedCall DEF Typed, Lists
<1>6. FrameTrue(Frame("CalibFirstStep", pin, type)) /\ "CalibFirstStep" \in CalibFrames
  BY <1>3 DEF FrameTrue, Frame, CalibFrames, Steps, NextStep
<1>7. CalibInv'
  BY <1>4, <1>6, CalibAfterCall DEF Typed
<1> QED
  BY <1>5, <1>7

LEMMA StepSelTyped == ASSUME Typed, StepSel PROVE TypeInv' /\ CalibInv'
<1>1. PICK f \in DOMAIN NextStep : Waiting(f) /\ Call(Top.n, Frame(NextStep[f], Top.n, Top.type))
  BY DEF StepSel
<1>2. PICK g, n, type : g = NextStep[f] /\ n = Top.n /\ type = Top.type
  OBVIOUS
<1>3. f \in Steps /\ g \in Steps /\ g \notin Lists \cup {"CalibMenu"}
  BY <1>2 DEF Steps, NextStep, Lists
<1>4. /\ stack # <<>> /\ at' = "key" /\ types' = types /\ RestOK' /\ n \in 0..255
      /\ type \in Kinds /\ HasType(n, type) /\ Call(n, Frame(g, n, type))
  BY <1>1, <1>2, <1>3, TopTrue DEF StepSel, Waiting, control, RestOK, FrameTrue
<1>5. TypeInv'
  BY <1>3, <1>4, TypedCall DEF Typed, Lists
<1>6. FrameTrue(Frame(g, n, type)) /\ g \in CalibFrames
  BY <1>3, <1>4 DEF FrameTrue, Frame, CalibFrames
<1>7. CalibInv'
  BY <1>2, <1>3, <1>4, <1>6, CalibAfterCall DEF Typed
<1> QED
  BY <1>5, <1>7

LEMMA InitTyped == Init => TypeInv /\ CalibInv
<1> SUFFICES ASSUME Init PROVE TypeInv /\ CalibInv
  OBVIOUS
<1>1. /\ stack = <<>> /\ at = "back"
      /\ showStatus \in BOOLEAN /\ returning \in BOOLEAN /\ firstRun \in BOOLEAN
      /\ level = 0 /\ path \in [0..4 -> 0..6] /\ Len(stack) = 0
  <2>1. /\ stack = <<>> /\ at = "back" /\ level = 0 /\ path = [j \in 0..4 |-> 0]
        /\ showStatus = FALSE /\ returning = FALSE /\ firstRun = FALSE
    BY DEF Init
  <2>2. path \in [0..4 -> 0..6]
    BY <2>1
  <2> QED
    BY <2>1, <2>2
<1>2. PICK a \in [Pins(1) -> TypesOf(1)], d \in [Pins(2) -> TypesOf(2)], i \in [Pins(3) -> TypesOf(3)] :
         types = <<a, d, i>>
  BY DEF Init
<1>3. DOMAIN types = Tables /\ \A t \in Tables : types[t] \in [Pins(t) -> TypesOf(t)]
  <2>1. DOMAIN types = 1..3 /\ types[1] = a /\ types[2] = d /\ types[3] = i
    BY <1>2
  <2> QED
    BY <2>1 DEF Tables
<1>4. FramesOK /\ CalibInv /\ PathInv
  BY <1>1 DEF FramesOK, CalibInv, PathInv, Waiting
<1>5. Len(stack) <= MaxDepth
  BY <1>1, MaxDepthAssumption
<1>6. TypeOK
  BY <1>1, <1>3, <1>4, <1>5 DEF TypeOK
<1> QED
  BY <1>4, <1>6 DEF TypeInv

LEMMA ConectTyped ==
    ASSUME Typed, ConectSel \/ PinConectSel \/ TypeSel PROVE TypeInv' /\ CalibInv'
<1>1. /\ stack # <<>> /\ at = "key" /\ Top.f \in {"ConectMenu", "PinConectMenu", "TypeMenu"}
      /\ Top.f \notin CalibFrames /\ Top.f \in Lists
  BY DEF ConectSel, PinConectSel, TypeSel, Waiting, CalibFrames, Steps, NextStep, Lists
<1>2. Top.n \in 0..255 /\ RestOK
  BY <1>1, TopTrue
<1>3. Top.n \in 1..(Length(Top.f) - 1)
  BY <1>1 DEF Typed, TypeInv, TypeOK
<1>4. CASE ConectSel
  <2>1. Top.n \in Tables
    BY <1>3, <1>4 DEF ConectSel, Waiting, Length, Tables
  <2>2. /\ path' = [path EXCEPT ![level] = Top.n] /\ level = 1 /\ level' = 2
        /\ UNCHANGED <<at, control, types>>
    BY <1>4 DEF ConectSel, Waiting, Typed, MenuInv, LevelInv
  <2>3. path' \in [0..4 -> 0..6] /\ path'[1] \in Tables
    BY <1>2, <2>1, <2>2 DEF RestOK, Tables
  <2>4. RestOK'
    BY <1>2, <2>2, <2>3 DEF RestOK, control
  <2>5. PICK f, m : f = "PinConectMenu" /\ m = 1
    OBVIOUS
  <2>6. m \in 1..(Length(f)' - 1)
    BY <2>3, <2>5, MenuLengthAssumption DEF Length
  <2>7. Call(Top.n, Frame(f, m, "none"))
    BY <1>4, <2>5 DEF ConectSel, Menu
  <2>8. f \notin CalibFrames \cup {"TypeMenu"} /\ m \in 0..255
    BY <2>5 DEF CalibFrames, Steps, NextStep
  <2> QED
    BY <1>1, <1>2, <2>2, <2>3, <2>4, <2>6, <2>7, <2>8, MenuCall
<1>5. CASE PinConectSel
  <2>1. path[1] \in Tables /\ Top.n \in Pins(path[1])
    BY <1>1, <1>3, <1>5 DEF PinConectSel, Waiting, Length, Pins, Typed, TypeInv, PathInv
  <2>2. /\ path' = [path EXCEPT ![level] = Top.n] /\ level = 2 /\ level' = 3
        /\ UNCHANGED <<at, control, types>>
    BY <1>5 DEF PinConectSel, Waiting, Typed, MenuInv, LevelInv
  <2>3. Top.n \in 0..6
    BY <2>1, MenuLengthAssumption DEF Pins
  <2>4. path' \in [0..4 -> 0..6] /\ path'[1] = path[1] /\ path'[2] = Top.n
    BY <1>2, <2>2, <2>3 DEF RestOK
  <2>5. RestOK'
    BY <1>2, <2>2, <2>4 DEF RestOK, control
  <2>6. PICK type : type = types[path[1]][Top.n]
    OBVIOUS
  <2>7. type \in TypesOf(path[1])
    BY <1>2, <2>1, <2>6 DEF RestOK
  <2>8. type \in 0..255 /\ type \in 1..(Length("TypeMenu")' - 1)
    BY <2>1, <2>4, <2>7, MenuLengthAssumption DEF Length, TypesOf
  <2>9. Call(Top.n, Frame("TypeMenu", type, "none"))
    BY <1>5, <2>6 DEF PinConectSel, Menu
  <2> QED
    BY <1>1, <1>2, <2>1, <2>2, <2>4, <2>5, <2>8, <2>9, MenuCall DEF CalibFrames, Steps, NextStep
<1>6. CASE TypeSel
  <2>1. path[1] \in Tables /\ path[2] \in Pins(path[1]) /\ Top.n \in TypesOf(path[1])
    BY <1>1, <1>3, <1>6 DEF TypeSel, Waiting, Length, TypesOf, Typed, TypeInv, PathInv
  <2>2. Top.n \in 0..6
    BY <2>1, MenuLengthAssumption DEF TypesOf
  <2>3. path' \in [0..4 -> 0..6]
    BY <1>2, <1>6, <2>2 DEF TypeSel, RestOK
  <2>4. PICK p, q, x : p = path[1] /\ q = path[2] /\ x = Top.n
    OBVIOUS
  <2>5. types' = [types EXCEPT ![p] = [types[p] EXCEPT ![q] = x]]
    BY <1>6, <2>4 DEF TypeSel
  <2>6. [types[p] EXCEPT ![q] = x] \in [Pins(p) -> TypesOf(p)]
    BY <1>2, <2>1, <2>4 DEF RestOK
  <2>7. DOMAIN types' = Tables /\ \A t \in Tables : types'[t] \in [Pins(t) -> TypesOf(t)]
    BY <1>2, <2>5, <2>6 DEF RestOK
  <2>8. RestOK'
    BY <1>2, <1>6, <2>3, <2>7 DEF TypeSel, RestOK
  <2> QED
    BY <1>1, <1>6, <2>8, ReturnTyped DEF TypeSel
<1> QED
  BY <1>4, <1>5, <1>6

LEMMA KeyTyped == Typed /\ Key => TypeInv' /\ CalibInv'
<1> SUFFICES ASSUME Typed, Key PROVE TypeInv' /\ CalibInv'
  OBVIOUS
<1>0. stack # <<>> => Top.n \in 0..255 /\ RestOK
  BY TopTrue
<1>1. CASE Open
  <2>1. PICK F : F = Frame("MainMenu", 1, "none")
    OBVIOUS
  <2>2. stack' = <<F>> /\ F.f = "MainMenu" /\ F.n = 1 /\ F.type = "none"
    BY <1>1, <2>1 DEF Open, Menu, Frame
  <2>3. Len(stack') = 1 /\ stack'[1] = F /\ DOMAIN stack' = 1..1
    BY <2>2
  <2>4. Top' = F
    BY <2>3 DEF Top, Last
  <2>5. FramesOK'
    BY <2>2, <2>3 DEF FramesOK
  <2>6. 1 \in 1..(Length("MainMenu")' - 1)
    BY DEF Length
  <2>7. TypeOK'
    BY <1>1, <2>2, <2>3, <2>4, <2>5, <2>6, MaxDepthAssumption DEF Open, TypeOK, Typed, TypeInv
  <2>8. PathInv' /\ CalibInv'
    BY <2>2, <2>3, <2>4 DEF PathInv, CalibInv, Waiting, FrameTrue, Steps, NextStep
  <2> QED
    BY <2>7, <2>8 DEF TypeInv
<1>2. CASE Highlight
  BY <1>2, HighlightTyped
<1>3. CASE MainSel
  <2>1. /\ stack # <<>> /\ at = "key" /\ Top.f \notin CalibFrames
    BY <1>3 DEF MainSel, Waiting, CalibFrames, Steps, NextStep
  <2>2. CASE CalibMenu(2)
    <3>1. PICK n : n = 2
      OBVIOUS
    <3>2. CalibMenu(n) /\ n \in 0..255
      BY <2>2, <3>1
    <3> QED
      BY <2>1, <3>2, CalibTyped
  <2>3. CASE ~CalibMenu(2)
    <3>1. /\ Top.n \in {1, 3, 4}
          /\ Call(Top.n, CASE Top.n = 1 -> Menu("ConectMenu", 1)
                           [] Top.n = 3 -> Menu("DelayMenu", 0)
                           [] Top.n = 4 -> Menu("SetTimeMenu", 1))
          /\ level' = IF Top.n = 3 THEN level ELSE 1
          /\ UNCHANGED <<at, control, path, types>>
      BY <1>3, <2>3 DEF MainSel
    <3>2. RestOK' /\ at' = at /\ types' = types
      BY <1>0, <2>1, <3>1 DEF RestOK, control
    <3>3. PICK f, m : /\ f \in {"ConectMenu", "DelayMenu", "SetTimeMenu"} /\ m \in 0..1
                      /\ f # "DelayMenu" => m = 1
                      /\ Call(Top.n, Frame(f, m, "none"))
      <4>1. CASE Top.n = 1
        BY <3>1, <4>1 DEF Menu
      <4>2. CASE Top.n = 3
        BY <3>1, <4>2 DEF Menu
      <4>3. CASE Top.n = 4
        BY <3>1, <4>3 DEF Menu
      <4> QED
        BY <3>1, <4>1, <4>2, <4>3
    <3>4. f \in Lists => m \in 1..(Length(f)' - 1)
      BY <3>3 DEF Lists, Length
    <3>5. f \notin CalibFrames /\ m \in 0..255
      BY <3>3 DEF CalibFrames, Steps, NextStep
    <3> QED
      BY <1>0, <2>1, <3>2, <3>3, <3>4, <3>5, MenuCall
  <2> QED
    BY <2>2, <2>3
<1>4. CASE MainBack
  <2>1. stack # <<>> /\ Return /\ types' = types /\ RestOK'
    BY <1>0, <1>4 DEF MainBack, Waiting, RestOK
  <2> QED
    BY <2>1, ReturnTyped
<1>5. CASE ConectSel \/ PinConectSel \/ TypeSel
  BY <1>5, ConectTyped
<1>6. CASE ConectBack \/ DelayBack
  <2>1. PICK n, f, m : n = 0 /\ f = "MainMenu" /\ m = 1
    OBVIOUS
  <2>2. /\ Call(n, Frame(f, m, "none")) /\ stack # <<>> /\ Top.f \notin CalibFrames
        /\ at' = at /\ types' = types /\ path' = path /\ level' \in 0..3
        /\ showStatus' = showStatus /\ returning' \in BOOLEAN /\ firstRun' = firstRun
    BY <1>0, <1>6, <2>1 DEF ConectBack, DelayBack, Menu, Waiting, CalibFrames, Steps, NextStep,
                          RestOK, control
  <2>3. RestOK'
    BY <1>0, <2>2 DEF RestOK
  <2>4. m \in 1..(Length(f)' - 1)
    BY <2>1 DEF Length
  <2>5. f \notin CalibFrames \cup {"PinConectMenu", "TypeMenu"} /\ n \in 0..255 /\ m \in 0..255
    BY <2>1 DEF CalibFrames, Steps, NextStep
  <2> QED
    BY <2>2, <2>3, <2>4, <2>5, MenuCall
<1>7. CASE ToConectMenu
  <2>1. PICK n, f, m : n = 0 /\ f = "ConectMenu" /\ m = 1
    OBVIOUS
  <2>2. /\ Call(n, Frame(f, m, "none")) /\ stack # <<>> /\ Top.f \notin CalibFrames
        /\ at' = at /\ types' = types /\ path' = path /\ level' \in 0..3
        /\ showStatus' = showStatus /\ returning' \in BOOLEAN /\ firstRun' = firstRun
    BY <1>0, <1>7, <2>1 DEF ToConectMenu, Menu, Waiting, CalibFrames, Steps, NextStep,
                          RestOK, control
  <2>3. RestOK'
    BY <1>0, <2>2 DEF RestOK
  <2>4. m \in 1..(Length(f)' - 1)
    BY <2>1 DEF Length
  <2>5. f \notin CalibFrames \cup {"PinConectMenu", "TypeMenu"} /\ n \in 0..255 /\ m \in 0..255
    BY <2>1 DEF CalibFrames, Steps, NextStep
  <2> QED
    BY <2>2, <2>3, <2>4, <2>5, MenuCall
<1>8. CASE CalibMove
  BY <1>8, CalibMoveTyped
<1>9. CASE CalibSel
  BY <1>9, CalibSelTyped
<1>10. CASE StepSel
  BY <1>10, StepSelTyped
<1>11. CASE StepBack
  <2>1. stack # <<>> /\ CalibMenu(Top.n)
    BY <1>11 DEF StepBack, Waiting
  <2> QED
    BY <1>0, <2>1, CalibTyped
<1>12. CASE CalibBack \/ CalibFourthSel \/ SetTimeBack
  <2>1. stack # <<>> /\ Return /\ types' = types /\ RestOK'
    BY <1>0, <1>12 DEF CalibBack, CalibFourthSel, SetTimeBack, Waiting, RestOK
  <2> QED
    BY <2>1, ReturnTyped
<1>13. CASE Adjust
  BY <1>13, SameTyped DEF Adjust, Typed
<1>14. CASE DelaySel
  <2>1. stack' = stack /\ types' = types /\ path' = path /\ RestOK' /\ at' = "back"
    BY <1>0, <1>14 DEF DelaySel, Waiting, RestOK
  <2>2. TypeInv'
    BY <2>1 DEF Typed, TypeInv, TypeOK, FramesOK, PathInv, Waiting, RestOK
  <2>3. CalibInv'
    BY <2>1, SameTypes DEF Typed, CalibInv, Waiting
  <2> QED
    BY <2>2, <2>3
<1>15. CASE SetTimeSel
  <2>1. stack # <<>> /\ at = "key" /\ Top.f = "SetTimeMenu" /\ RestOK
    BY <1>0, <1>15 DEF SetTimeSel, Waiting
  <2>2. Top.n \in 0..6
    BY <2>1 DEF Typed, TypeInv, TypeOK, Lists, Length
  <2>3. PICK f, m : f = "SubTimeMenu" /\ m = 0
    OBVIOUS
  <2>4. /\ Call(Top.n, Frame(f, m, "none")) /\ at' = at /\ types' = types
        /\ RestOK'
    BY <1>15, <2>1, <2>2, <2>3 DEF SetTimeSel, Menu, RestOK, control
  <2>5. /\ f \notin CalibFrames \cup Lists /\ m \in 0..255 /\ Top.f \notin CalibFrames
        /\ Top.n \in 0..255
    BY <2>1, <2>2, <2>3 DEF CalibFrames, Steps, NextStep, Lists
  <2> QED
    BY <2>1, <2>4, <2>5, MenuCall DEF Lists
<1>16. CASE SubTimeSel \/ SubTimeBack
  <2>1. PICK n, f, m : n = 0 /\ f = "SetTimeMenu" /\ m = 1
    OBVIOUS
  <2>2. /\ Call(n, Frame(f, m, "none")) /\ stack # <<>> /\ Top.f \notin CalibFrames
        /\ at' = at /\ types' = types /\ path' = path /\ level' \in 0..3
        /\ showStatus' = showStatus /\ returning' \in BOOLEAN /\ firstRun' = firstRun
    <3>1. /\ Call(0, Menu("SetTimeMenu", 1)) /\ Waiting("SubTimeMenu") /\ level' = 1
          /\ UNCHANGED <<at, showStatus, firstRun, path, types>>
          /\ returning' = FALSE \/ returning' = returning
      BY <1>16 DEF SubTimeSel, SubTimeBack, control
    <3>2. Call(n, Frame(f, m, "none")) /\ returning' \in BOOLEAN
      BY <1>0, <2>1, <3>1 DEF Menu, Waiting, RestOK
    <3> QED
      BY <3>1, <3>2 DEF Waiting, CalibFrames, Steps, NextStep
  <2>3. RestOK'
    BY <1>0, <2>2 DEF RestOK
  <2>4. m \in 1..(Length(f)' - 1)
    BY <2>1 DEF Length
  <2>5. f \notin CalibFrames \cup {"PinConectMenu", "TypeMenu"} /\ n \in 0..255 /\ m \in 0..255
    BY <2>1 DEF CalibFrames, Steps, NextStep
  <2> QED
    BY <2>2, <2>3, <2>4, <2>5, MenuCall
<1> QED
  BY <1>1, <1>2, <1>3, <1>4, <1>5, <1>6, <1>7, <1>8, <1>9, <1>10, <1>11, <1>12, <1>13, <1>14,
     <1>15, <1>16 DEF Key

\* MenuInv: with something left to do, or the menu closed, no loop but MainMenu's goes on.
LEMMA StepTyped == Typed /\ Step => TypeInv' /\ CalibInv'
<1> SUFFICES ASSUME Typed, Step PROVE TypeInv' /\ CalibInv'
  OBVIOUS
<1>0. stack # <<>> => Top.type \in Kinds /\ RestOK
  BY TopTrue
<1>1. CASE Loop
  <2>1. UNCHANGED <<stack, at, showStatus, returning, level, path, types>> /\ firstRun' = FALSE
    BY <1>1 DEF Loop
  <2>2. Top' = Top /\ (\A f : Length(f)' = Length(f))
    BY <2>1 DEF Top, Length
  <2>3. TypeInv'
    BY <2>1, <2>2 DEF Typed, TypeInv, TypeOK, FramesOK, PathInv, Waiting
  <2>4. CalibInv'
    BY <2>1, <2>2, SameTypes DEF Typed, CalibInv, Waiting
  <2> QED
    BY <2>3, <2>4
<1>2. CASE BackInMain
  <2>1. stack # <<>> /\ Top.f = "MainMenu" /\ types' = types /\ path' = path /\ RestOK'
    BY <1>0, <1>2 DEF BackInMain, Back, RestOK
  <2>2. CASE ~showStatus
    BY <1>2, <2>1, <2>2, ReturnTyped DEF BackInMain
  <2>3. CASE showStatus
    <3>1. PICK f, n, type : f = Top.f /\ n = 1 /\ type = Top.type
      OBVIOUS
    <3>2. stack' = WithTop(Frame(f, n, type)) /\ at' = "key"
      BY <1>2, <2>3, <3>1 DEF BackInMain, WithN
    <3>3. n \in 1..(Length(f) - 1) /\ n \in 0..255 /\ type \in Kinds
      BY <1>0, <2>1, <3>1 DEF Length
    <3>4. TypeInv'
      BY <2>1, <3>1, <3>2, <3>3, TypedReplace DEF Typed
    <3>5. FrameTrue(Frame(f, n, type)) /\ f # "CalibMenu"
      BY <2>1, <3>1 DEF FrameTrue, Frame, Steps, NextStep
    <3>6. CalibInv'
      BY <2>1, <3>1, <3>2, <3>5, CalibAfterReplace DEF Typed
    <3> QED
      BY <3>4, <3>6
  <2> QED
    BY <2>2, <2>3
<1>3. CASE BackAtEnd
  <2>1. stack # <<>> /\ Return /\ types' = types /\ RestOK'
    BY <1>0, <1>3 DEF BackAtEnd, Back, control, RestOK
  <2> QED
    BY <2>1, ReturnTyped
<1>4. CASE BackInLoop
  <2>1. stack # <<>> /\ types' = types /\ RestOK' /\ (returning \/ ~showStatus)
    BY <1>0, <1>4 DEF BackInLoop, Back, control, RestOK, Typed, MenuInv, ReturnInv
  <2>2. Return
    BY <1>4, <2>1 DEF BackInLoop
  <2> QED
    BY <2>1, <2>2, ReturnTyped
<1> QED
  BY <1>1, <1>2, <1>3, <1>4 DEF Step

LEMMA TypedHolds == Spec => []Typed
<1>1. Init => Typed
  BY InitMenuInv, InitTyped DEF Typed
<1>2. Typed /\ [Next]_vars => Typed'
  <2> SUFFICES ASSUME Typed, [Next]_vars PROVE Typed'
    OBVIOUS
  <2>1. CASE Key
    BY <2>1, KeyMenuInv, KeyTyped DEF Typed
  <2>2. CASE Step
    BY <2>2, StepMenuInv, StepTyped DEF Typed
  <2>3. CASE UNCHANGED vars
    <3>1. MenuInv'
      BY <2>3, SameMenuInv DEF Typed
    <3>2. TypeInv' /\ CalibInv'
      BY <2>3, SameTyped DEF Typed
    <3> QED
      BY <3>1, <3>2 DEF Typed
  <2> QED
    BY <2>1, <2>2, <2>3 DEF Next
<1> QED
  BY <1>1, <1>2, PTL DEF Spec

\* No item highlighted is outside its menu and no choice outside the arrays it indexes,
\* for tables and menus of any length (makeMenu, Assign).
THEOREM TypeCorrect == Spec => []TypeOK
<1>1. Typed => TypeOK
  BY DEF Typed, TypeInv
<1> QED
  BY <1>1, TypedHolds, PTL

\* The pin a calibration stores its constants for has a sensor of that kind, whatever was
\* connected before and wherever another calibration was begun inside, unless a read
\* outside the array made it one (Menu.h:165-233).
THEOREM CalibratedHasTypeHolds == Spec => []CalibratedHasType
<1>1. Typed => CalibratedHasType
  <2> SUFFICES ASSUME Typed, NEW k \in DOMAIN stack, stack[k].f \in Steps
               PROVE  HasType(stack[k].n, stack[k].type)
    BY DEF CalibratedHasType
  <2>1. k \in 1..Len(stack)
    BY DEF Typed, MenuInv, IsStack
  <2> QED
    BY <2>1 DEF Typed, CalibInv, FrameTrue
<1> QED
  BY <1>1, TypedHolds, PTL

=============================================================================
