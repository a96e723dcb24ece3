------------------------- MODULE OpenSocket_proofs --------------------------
(***************************************************************************)
(* That a call of _open_socket leaves nothing behind but the socket it     *)
(* returns, however many calls run at once, whatever the host lacks and    *)
(* wherever they fail.                                                     *)
(***************************************************************************)
EXTENDS OpenSocket, FiniteSetTheorems, TLAPS

(* Which of its two sockets a call holds in each of its states.            *)
Holds(o) ==
  LET dual == socks[<<o, "dual">>] # None
      plain == socks[<<o, "plain">>] # None
  IN  /\ pc[o] \in {"dual clear", "dual prepare", "dual bind"} =>
           dual /\ ~plain /\ socks[<<o, "dual">>].addr = None
      /\ pc[o] \in {"dual", "plain", "closed"} => ~dual /\ ~plain
      /\ pc[o] \in {"plain clear", "plain prepare", "plain bind"} => ~dual /\ plain
      /\ pc[o] = "returned" => dual = ~plain
      /\ pc[o] = "raised" =>
           /\ ~plain
           /\ dual => /\ heard[o] = "KeyboardInterrupt"
                      /\ socks[<<o, "dual">>].addr = None

(* The inductive invariant.                                                *)
IInv == TypeOK /\ \A o \in Openers : Holds(o)

(* A step of one call leaves the sockets of the others as they were.       *)
Elsewhere(o) ==
  \A p \in Openers \ {o} :
    /\ pc'[p] = pc[p] /\ heard'[p] = heard[p]
    /\ socks'[<<p, "dual">>] = socks[<<p, "dual">>]
    /\ socks'[<<p, "plain">>] = socks[<<p, "plain">>]

-----------------------------------------------------------------------------
(* Every step changes one call's state, and at most one of its sockets.    *)
LEMMA OneCallMoves ==
  ASSUME TypeOK, NEW o \in Openers, NEW to \in States, NEW k \in {"dual", "plain"},
         NEW s \in Socket \cup {None}, NEW error \in Errors,
         Goes(o, to), Put(<<o, k>>, s) \/ UNCHANGED socks,
         UNCHANGED heard \/ heard' = [heard EXCEPT ![o] = error],
         UNCHANGED args
  PROVE  TypeOK' /\ Elsewhere(o) /\ pc'[o] = to
<1>1. \A p \in Openers, j \in {"dual", "plain"} : <<p, j>> \in Attempts
  BY DEF Attempts
<1>2. TypeOK'
  BY <1>1 DEF TypeOK, Goes, Put, args
<1>3. Elsewhere(o) /\ pc'[o] = to
  BY <1>1 DEF TypeOK, Elsewhere, Goes, Put
<1>4. QED BY <1>2, <1>3

(* The other calls still hold what they held.                              *)
LEMMA OthersHold ==
  ASSUME IInv, NEW o \in Openers, TypeOK', Elsewhere(o), Holds(o)'
  PROVE  IInv'
<1>1. \A p \in Openers \ {o} : Holds(p)'
  BY DEF IInv, Elsewhere, Holds
<1>2. QED BY <1>1 DEF IInv

(* What a step puts in one place is there, and the other place is as it    *)
(* was.                                                                    *)
LEMMA PutThere ==
  ASSUME TypeOK, NEW o \in Openers, NEW k \in {"dual", "plain"},
         NEW j \in {"dual", "plain"}, j # k,
         NEW s, Put(<<o, k>>, s)
  PROVE  socks'[<<o, k>>] = s /\ socks'[<<o, j>>] = socks[<<o, j>>]
<1>1. <<o, k>> \in Attempts /\ <<o, j>> \in Attempts /\ <<o, k>> # <<o, j>>
  BY DEF Attempts
<1>2. QED BY <1>1 DEF TypeOK, Put

(* What New makes is a socket, bound to nothing.                           *)
LEMMA SocketMade ==
  ASSUME TypeOK, NEW f \in {4, 6}
  PROVE  New(f) \in Socket /\ New(f).addr = None /\ New(f) # None
<1>1. host.only6 \in BOOLEAN
  BY DEF TypeOK, Hosts
<1>2. New(f) \in Socket /\ New(f).addr = None
  BY <1>1 DEF New, Socket
<1>3. QED BY <1>2, OpenersAssumption

(* Setting a socket up, or binding it, leaves it a socket.                 *)
LEMMA SocketKept ==
  ASSUME NEW s \in Socket
  PROVE  /\ [s EXCEPT !.only6 = FALSE] \in Socket
         /\ \A b \in BOOLEAN : [s EXCEPT !.reuse = b] \in Socket
         /\ \A x \in V4 \cup V6 \cup Wildcards \cup {None} :
              [s EXCEPT !.addr = x] \in Socket
         /\ [s EXCEPT !.only6 = FALSE].addr = s.addr
         /\ \A b \in BOOLEAN : [s EXCEPT !.reuse = b].addr = s.addr
         /\ None \notin Socket
BY OpenersAssumption DEF Socket

(* The kernel answers nothing, or an error.                                *)
LEMMA KernelErrors ==
  /\ \A f : MakeError(f) = None \/ MakeError(f) \in Errors
  /\ \A s, h : BindError(s, h) = None \/ BindError(s, h) \in Errors
  /\ TypeOK /\ host.clear # "ok" => host.clear \in Errors
BY DEF MakeError, BindError, Errors, TypeOK, Hosts

(* A call that has opened nothing holds nothing.                           *)
LEMMA InitIInv == Init => IInv
<1> SUFFICES ASSUME Init PROVE IInv
  OBVIOUS
<1>1. TypeOK
  BY DEF Init, TypeOK, States, Hosts, Errors
<1>2. \A o \in Openers : Holds(o)
  BY DEF Init, Holds, Attempts
<1>3. QED BY <1>1, <1>2 DEF IInv

-----------------------------------------------------------------------------
(* The default socket.                                                     *)
LEMMA DualHolds ==
  ASSUME IInv, NEW o \in Openers,
         MakeDual(o) \/ ClearDual(o) \/ PrepareDual(o) \/ BindDual(o)
  PROVE  IInv'
<1> USE DEF IInv
<1> /\ "dual" \in {"dual", "plain"} /\ "plain" \in {"dual", "plain"}
    /\ "dual" # "plain" /\ UNCHANGED args
  BY DEF MakeDual, ClearDual, PrepareDual, BindDual
<1>a. ASSUME socks[<<o, "dual">>] # None, socks[<<o, "plain">>] = None,
             NEW error \in Errors, Shut(<<o, "dual">>),
             FallBack(o) \/ Raise(o, error)
      PROVE  IInv'
  <2>1. TypeOK' /\ Elsewhere(o) /\ (pc'[o] = "plain" \/ pc'[o] = "raised")
    BY <1>a, OneCallMoves DEF Shut, FallBack, Raise, States
  <2>2. socks'[<<o, "dual">>] = None /\ socks'[<<o, "plain">>] = None
    BY <1>a, PutThere DEF Shut
  <2>3. Holds(o)'
    BY <2>1, <2>2 DEF Holds
  <2>4. QED BY <2>1, <2>3, OthersHold
<1>b. ASSUME NEW s \in Socket, Put(<<o, "dual">>, s), UNCHANGED heard,
             socks[<<o, "plain">>] = None,
             NEW to \in {"dual clear", "dual prepare", "dual bind", "returned"},
             to # "returned" => s.addr = None, Goes(o, to)
      PROVE  IInv'
  <2>1. TypeOK' /\ Elsewhere(o) /\ pc'[o] = to
    BY <1>b, OneCallMoves DEF States, Errors
  <2>2. socks'[<<o, "dual">>] = s /\ socks'[<<o, "plain">>] = None
    BY <1>b, PutThere
  <2>3. s # None
    BY OpenersAssumption
  <2>4. Holds(o)'
    BY <1>b, <2>1, <2>2, <2>3 DEF Holds
  <2>5. QED BY <2>1, <2>4, OthersHold
<1>1. CASE MakeDual(o)
  <2>1. socks[<<o, "dual">>] = None /\ socks[<<o, "plain">>] = None
    BY <1>1 DEF MakeDual, Holds
  <2>2. CASE Put(<<o, "dual">>, New(6)) /\ Goes(o, "dual clear") /\ UNCHANGED heard
    BY <2>1, <2>2, <1>b, SocketMade
  <2>3. CASE FallBack(o) /\ UNCHANGED socks
    <3>1. TypeOK' /\ Elsewhere(o) /\ pc'[o] = "plain"
      BY <2>3, OneCallMoves DEF FallBack, States, Errors
    <3>2. Holds(o)'
      BY <2>1, <2>3, <3>1 DEF Holds
    <3>3. QED BY <3>1, <3>2, OthersHold
  <2>4. QED BY <1>1, <2>2, <2>3 DEF MakeDual
<1>2. CASE ~MakeDual(o)
  <2> DEFINE s == socks[<<o, "dual">>]
  <2>1. s \in Socket /\ s.addr = None /\ socks[<<o, "plain">>] = None
    BY <1>2 DEF ClearDual, PrepareDual, BindDual, Holds, TypeOK, Attempts
  <2>2. s # None
    BY <2>1, OpenersAssumption
  <2>3. reuse[o] \in BOOLEAN
    BY DEF TypeOK
  <2>4. \A error \in Errors : BindFails(o, error) => IInv'
    BY <1>a, <2>1, <2>2 DEF BindFails
  <2>5. CASE ClearDual(o)
    <3>1. CASE host.clear # "ok" /\ NoClear(o)
      BY <3>1, <1>a, <2>1, <2>2, KernelErrors DEF NoClear
    <3>2. CASE Put(<<o, "dual">>, [s EXCEPT !.only6 = FALSE])
               /\ Goes(o, "dual prepare") /\ UNCHANGED heard
      BY <3>2, <1>b, <2>1, SocketKept
    <3>3. QED BY <2>5, <3>1, <3>2 DEF ClearDual
  <2>6. CASE PrepareDual(o)
    <3>1. CASE BindFails(o, "EACCES")
      BY <3>1, <2>4 DEF Errors
    <3>2. CASE Put(<<o, "dual">>, [s EXCEPT !.reuse = reuse[o]])
               /\ Goes(o, "dual bind") /\ UNCHANGED heard
      <4> DEFINE x == [s EXCEPT !.reuse = reuse[o]]
      <4>1. x \in Socket /\ x.addr = None
        BY <2>1, <2>3, SocketKept
      <4> HIDE DEF x
      <4>2. QED BY <3>2, <4>1, <1>b, <2>1 DEF x
    <3>3. QED BY <2>6, <3>1, <3>2 DEF PrepareDual
  <2>7. CASE BindDual(o)
    <3> DEFINE error == BindError(s, "::")
    <3>1. CASE error # None /\ BindFails(o, error)
      BY <3>1, <2>4, KernelErrors
    <3>2. CASE Put(<<o, "dual">>, [s EXCEPT !.addr = "::"])
               /\ Goes(o, "returned") /\ UNCHANGED heard
      BY <3>2, <1>b, <2>1, SocketKept DEF Wildcards
    <3>3. QED BY <2>7, <3>1, <3>2 DEF BindDual
  <2>8. QED BY <1>2, <2>5, <2>6, <2>7
<1>3. QED BY <1>1, <1>2

(* The named address, or what the wildcard falls back to.                  *)
LEMMA PlainHolds ==
  ASSUME IInv, NEW o \in Openers,
         MakePlain(o) \/ ClearPlain(o) \/ PreparePlain(o) \/ BindPlain(o)
  PROVE  IInv'
<1> USE DEF IInv
<1> /\ "dual" \in {"dual", "plain"} /\ "plain" \in {"dual", "plain"}
    /\ "dual" # "plain" /\ UNCHANGED args
  BY DEF MakePlain, ClearPlain, PreparePlain, BindPlain
<1>0. socks[<<o, "dual">>] = None
  BY DEF MakePlain, ClearPlain, PreparePlain, BindPlain, Holds
<1>a. ASSUME NEW error \in Errors, Raise(o, error),
             Shut(<<o, "plain">>) \/ (UNCHANGED socks /\ socks[<<o, "plain">>] = None)
      PROVE  IInv'
  <2>1. TypeOK' /\ Elsewhere(o) /\ pc'[o] = "raised"
    BY <1>a, OneCallMoves DEF Shut, Raise, States
  <2>2. socks'[<<o, "dual">>] = None /\ socks'[<<o, "plain">>] = None
    BY <1>0, <1>a, PutThere DEF Shut
  <2>3. Holds(o)'
    BY <2>1, <2>2 DEF Holds
  <2>4. QED BY <2>1, <2>3, OthersHold
<1>b. ASSUME NEW s \in Socket, Put(<<o, "plain">>, s), UNCHANGED heard,
             NEW to \in {"plain clear", "plain prepare", "plain bind", "returned"},
             Goes(o, to)
      PROVE  IInv'
  <2>1. TypeOK' /\ Elsewhere(o) /\ pc'[o] = to
    BY <1>b, OneCallMoves DEF States, Errors
  <2>2. socks'[<<o, "plain">>] = s /\ socks'[<<o, "dual">>] = None
    BY <1>0, <1>b, PutThere
  <2>3. s # None
    BY OpenersAssumption
  <2>4. Holds(o)'
    BY <1>b, <2>1, <2>2, <2>3 DEF Holds
  <2>5. QED BY <2>1, <2>4, OthersHold
<1>1. CASE MakePlain(o)
  <2> DEFINE to == IF bind[o] = "::" THEN "plain clear" ELSE "plain prepare"
             f == FamilyOf(o)
  <2>1. socks[<<o, "plain">>] = None
    BY <1>1 DEF MakePlain, Holds
  <2>2. f \in {4, 6} /\ to \in {"plain clear", "plain prepare"}
    BY DEF FamilyOf
  <2>3. CASE Put(<<o, "plain">>, New(f)) /\ Goes(o, to) /\ UNCHANGED heard
    <3>1. New(f) \in Socket
      BY <2>2, SocketMade
    <3> HIDE DEF f, to
    <3>2. QED BY <2>2, <2>3, <3>1, <1>b
  <2>4. CASE MakeError(f) # None /\ Raise(o, MakeError(f)) /\ UNCHANGED socks
    BY <2>1, <2>4, <1>a, KernelErrors
  <2>5. QED BY <1>1, <2>3, <2>4 DEF MakePlain
<1>2. CASE ~MakePlain(o)
  <2> DEFINE s == socks[<<o, "plain">>]
  <2>1. s \in Socket
    BY <1>2 DEF ClearPlain, PreparePlain, BindPlain, Holds, TypeOK, Attempts
  <2>2. reuse[o] \in BOOLEAN /\ bind[o] \in Binds
    BY DEF TypeOK
  <2>3. \A error \in Errors :
          Shut(<<o, "plain">>) /\ Raise(o, error) => IInv'
    BY <1>a
  <2>4. CASE ClearPlain(o)
    <3>1. CASE host.clear # "ok" /\ Shut(<<o, "plain">>) /\ Raise(o, host.clear)
      BY <3>1, <2>3, KernelErrors
    <3>2. CASE Put(<<o, "plain">>, [s EXCEPT !.only6 = FALSE])
               /\ Goes(o, "plain prepare") /\ UNCHANGED heard
      BY <3>2, <1>b, <2>1, SocketKept
    <3>3. QED BY <2>4, <3>1, <3>2 DEF ClearPlain
  <2>5. CASE PreparePlain(o)
    <3>1. CASE Shut(<<o, "plain">>) /\ Raise(o, "EACCES")
      BY <3>1, <2>3 DEF Errors
    <3>2. CASE Put(<<o, "plain">>, [s EXCEPT !.reuse = reuse[o]])
               /\ Goes(o, "plain bind") /\ UNCHANGED heard
      BY <3>2, <1>b, <2>1, <2>2, SocketKept
    <3>3. QED BY <2>5, <3>1, <3>2 DEF PreparePlain
  <2>6. CASE BindPlain(o)
    <3> DEFINE error == BindError(s, HostOf(o))
               at == Resolve(HostOf(o))
    <3>1. CASE error # None /\ Shut(<<o, "plain">>) /\ Raise(o, error)
      BY <3>1, <2>3, KernelErrors
    <3>2. CASE error = None /\ Put(<<o, "plain">>, [s EXCEPT !.addr = at])
               /\ Goes(o, "returned") /\ UNCHANGED heard
      <4>1. HostOf(o) # "gone.example"
        BY <3>2, OpenersAssumption DEF BindError, Errors
      <4>2. at \in V4 \cup V6 \cup Wildcards
        BY <2>2, <4>1 DEF HostOf, Resolve, Binds, Names, V4, V6, Wildcards
      <4> HIDE DEF at
      <4>3. QED BY <3>2, <4>2, <1>b, <2>1, SocketKept
    <3>3. QED BY <2>6, <3>1, <3>2 DEF BindPlain
  <2>7. QED BY <1>2, <2>4, <2>5, <2>6
<1>3. QED BY <1>1, <1>2

-----------------------------------------------------------------------------
(* What happens from outside: an interrupt, the collector of garbage and   *)
(* the caller who is done.                                                 *)
LEMMA RestHolds ==
  ASSUME IInv, NEW o \in Openers, Interrupt(o) \/ Collect(o) \/ Close(o)
  PROVE  IInv'
<1> USE DEF IInv
<1> /\ "dual" \in {"dual", "plain"} /\ "plain" \in {"dual", "plain"}
    /\ "dual" # "plain" /\ UNCHANGED args
  BY DEF Interrupt, Collect, Close
<1> DEFINE dual == socks[<<o, "dual">>]
           plain == socks[<<o, "plain">>]
<1>1. CASE Interrupt(o)
  <2>1. TypeOK' /\ Elsewhere(o) /\ pc'[o] = "raised"
    BY <1>1, OneCallMoves DEF Interrupt, Raise, Shut, States, Errors
  <2>2. heard'[o] = "KeyboardInterrupt"
    BY <1>1 DEF Interrupt, Raise, TypeOK
  <2>3. plain' = None /\ (dual' = None \/ (dual' = dual /\ dual.addr = None))
    <3>1. CASE pc[o] = "dual clear" /\ UNCHANGED socks
      BY <3>1 DEF Holds
    <3>2. CASE pc[o] \in {"dual prepare", "dual bind"} /\ Shut(<<o, "dual">>)
      BY <3>2, PutThere DEF Shut, Holds
    <3>3. CASE pc[o] \in {"plain clear", "plain prepare", "plain bind"}
               /\ Shut(<<o, "plain">>)
      BY <3>3, PutThere DEF Shut, Holds
    <3>4. QED BY <1>1, <3>1, <3>2, <3>3 DEF Interrupt
  <2>4. Holds(o)'
    BY <2>1, <2>2, <2>3 DEF Holds
  <2>5. QED BY <2>1, <2>4, OthersHold
<1>2. CASE Collect(o)
  <2>1. TypeOK' /\ Elsewhere(o) /\ pc'[o] = "raised"
    <3>1. Goes(o, "raised")
      BY <1>2 DEF Collect, Goes, TypeOK
    <3>2. QED BY <1>2, <3>1, OneCallMoves DEF Collect, Shut, States, Errors
  <2>2. dual' = None /\ plain' = None
    BY <1>2, PutThere DEF Collect, Shut, Holds
  <2>3. Holds(o)'
    BY <2>1, <2>2 DEF Holds
  <2>4. QED BY <2>1, <2>3, OthersHold
<1>3. CASE Close(o)
  <2>1. PICK k \in {"dual", "plain"} :
          socks[<<o, k>>] # None /\ Shut(<<o, k>>)
    BY <1>3 DEF Close
  <2>2. TypeOK' /\ Elsewhere(o) /\ pc'[o] = "closed"
    BY <1>3, <2>1, OneCallMoves DEF Close, Shut, States, Errors
  <2>3. pc[o] = "returned" /\ (dual = None \/ plain = None)
    BY <1>3 DEF Close, Holds
  <2>4. dual' = None /\ plain' = None
    BY <2>1, <2>3, PutThere DEF Shut
  <2>5. Holds(o)'
    BY <2>2, <2>4 DEF Holds
  <2>6. QED BY <2>2, <2>5, OthersHold
<1>4. QED BY <1>1, <1>2, <1>3

LEMMA NextIInv == IInv /\ [Next]_vars => IInv'
<1> SUFFICES ASSUME IInv, [Next]_vars PROVE IInv'
  OBVIOUS
<1>1. CASE Next
  <2>1. PICK o \in Openers :
          \/ MakeDual(o) \/ ClearDual(o) \/ PrepareDual(o) \/ BindDual(o)
          \/ MakePlain(o) \/ ClearPlain(o) \/ PreparePlain(o) \/ BindPlain(o)
          \/ Interrupt(o) \/ Collect(o) \/ Close(o)
    BY <1>1 DEF Next
  <2>2. QED BY <2>1, DualHolds, PlainHolds, RestHolds
<1>2. CASE UNCHANGED vars
  BY <1>2 DEF IInv, TypeOK, Holds, vars, args
<1>3. QED BY <1>1, <1>2

(* What each call holds is what it may leave.                              *)
LEMMA NothingLeftFollows == IInv => NothingLeft
<1> SUFFICES ASSUME IInv, NEW o \in Openers
             PROVE  LET mine == {a \in Open : a[1] = o}
                    IN  /\ pc[o] = "returned" => \E a \in mine : mine = {a}
                        /\ pc[o] \in {"raised", "closed"} =>
                             \A a \in mine : /\ heard[o] = "KeyboardInterrupt"
                                             /\ socks[a].addr = None
                        /\ pc[o] \in {"plain", "plain clear", "plain prepare",
                                      "plain bind"} => <<o, "dual">> \notin mine
  BY DEF NothingLeft
<1> DEFINE mine == {a \in Open : a[1] = o}
<1>1. mine = {a \in {<<o, "dual">>, <<o, "plain">>} : socks[a] # None}
  BY DEF Open, Attempts
<1>2. Holds(o)
  BY DEF IInv
<1>3. ASSUME pc[o] = "returned" PROVE \E a \in mine : mine = {a}
  <2>1. CASE socks[<<o, "dual">>] # None
    <3>1. mine = {<<o, "dual">>}
      BY <1>1, <1>2, <1>3, <2>1 DEF Holds
    <3>2. QED BY <3>1
  <2>2. CASE socks[<<o, "dual">>] = None
    <3>1. mine = {<<o, "plain">>}
      BY <1>1, <1>2, <1>3, <2>2 DEF Holds
    <3>2. QED BY <3>1
  <2>3. QED BY <2>1, <2>2
<1>4. ASSUME pc[o] \in {"raised", "closed"}, NEW a \in mine
      PROVE  heard[o] = "KeyboardInterrupt" /\ socks[a].addr = None
  BY <1>1, <1>2, <1>4 DEF Holds
<1>5. ASSUME pc[o] \in {"plain", "plain clear", "plain prepare", "plain bind"}
      PROVE  <<o, "dual">> \notin mine
  BY <1>1, <1>2, <1>5 DEF Holds
<1>6. QED BY <1>3, <1>4, <1>5

-----------------------------------------------------------------------------
(* However many calls bind at once, whatever the host lacks and whichever  *)
(* step fails or is interrupted: a call leaves the one socket it returned, *)
(* or nothing, but for the unbound socket of an interrupted clearing.      *)
THEOREM NothingIsLeft == Spec => []NothingLeft
<1>1. Spec => []IInv
  BY InitIInv, NextIInv, PTL DEF Spec
<1>2. QED BY <1>1, NothingLeftFollows, PTL

(* The kernel's sockets, the calls' states and their errors are of their   *)
(* kinds throughout.                                                       *)
THEOREM SocketTypes == Spec => []TypeOK
<1>1. Spec => []IInv
  BY InitIInv, NextIInv, PTL DEF Spec
<1>2. IInv => TypeOK
  BY DEF IInv
<1>3. QED BY <1>1, <1>2, PTL

-----------------------------------------------------------------------------
(* A descriptor for each call: with fewer, another's socket can cost one   *)
(* of them IPv6, or its own, and what follows does not hold.               *)
EnoughDescriptors == /\ IsFiniteSet(Openers)
                     /\ Cardinality(Openers) <= Descriptors

HasIPv6 == host.make /\ host.clear = "ok" /\ host.bind

(* How far each call is with what it was asked: what is set up of its      *)
(* socket, and why it gave the default one up.  An attempt abandoned for   *)
(* any other reason would leave a host that has IPv6 served on IPv4 alone. *)
Fit(o) ==
  LET dual == socks[<<o, "dual">>]
      plain == socks[<<o, "plain">>]
  IN  /\ pc[o] \in {"dual", "dual clear", "dual prepare", "dual bind"} =>
           bind[o] = None
      /\ pc[o] \in {"dual clear", "dual prepare", "dual bind"} =>
           dual.family = 6 /\ host.make
      /\ pc[o] \in {"dual prepare", "dual bind"} =>
           ~dual.only6 /\ host.clear = "ok"
      /\ pc[o] \in {"plain", "plain clear", "plain prepare", "plain bind"} =>
           ~(bind[o] = None /\ HasIPv6)
      /\ pc[o] \in {"plain clear", "plain prepare", "plain bind"} =>
           plain.family = FamilyOf(o)
      /\ pc[o] = "plain clear" => bind[o] = "::"
      /\ pc[o] \in {"plain prepare", "plain bind"} /\ bind[o] = "::" =>
           ~plain.only6
      /\ pc[o] = "returned" =>
           \A s \in {dual, plain} \ {None} : Serves(s) = Asked(o)
      /\ pc[o] = "raised" /\ bind[o] = None =>
           heard[o] \in {"EADDRINUSE", "EACCES", "KeyboardInterrupt"}

AllFit == \A o \in Openers : Fit(o)

(* What a bound socket serves, and what a call is asked to.                *)
LEMMA WhatIsServed ==
  ASSUME NEW s
  PROVE  /\ s.addr = "::" /\ ~s.only6 => Serves(s) = V6 \cup V4
         /\ s.addr = "0.0.0.0" => Serves(s) = V4
         /\ s.addr \in V4 \cup V6 => Serves(s) = {s.addr}
BY OpenersAssumption DEF Serves, Wildcards, V4, V6

LEMMA WhatIsAsked ==
  ASSUME NEW o \in Openers
  PROVE  /\ bind[o] = None => Asked(o) = IF HasIPv6 THEN V6 \cup V4 ELSE V4
         /\ bind[o] = "::" => Asked(o) = V6 \cup V4
         /\ bind[o] = "0.0.0.0" => Asked(o) = V4
         /\ bind[o] \notin {None, "::", "0.0.0.0"} => Asked(o) = {Resolve(bind[o])}
BY OpenersAssumption DEF Asked, HasIPv6, Wildcards

(* Every call holds one socket at most, so one that holds none finds a     *)
(* descriptor left: only the host itself can refuse it a socket.           *)
LEMMA DescriptorLeft ==
  ASSUME IInv, EnoughDescriptors, NEW o \in Openers, NEW f \in {4, 6},
         socks[<<o, "dual">>] = None, socks[<<o, "plain">>] = None
  PROVE  MakeError(f) = IF f = 6 /\ ~host.make THEN "EAFNOSUPPORT" ELSE None
<1> DEFINE others == Openers \ {o}
           owner == [a \in Open |-> a[1]]
<1>1. ASSUME NEW a \in Open
      PROVE  /\ a[1] \in others /\ a = <<a[1], a[2]>>
             /\ a[2] \in {"dual", "plain"} /\ socks[<<a[1], a[2]>>] # None
  BY DEF Open, Attempts
<1>2. \A p \in Openers : socks[<<p, "dual">>] = None \/ socks[<<p, "plain">>] = None
  <2> TAKE p \in Openers
  <2>1. Holds(p) /\ pc[p] \in States
    BY DEF IInv, TypeOK
  <2>2. QED BY <2>1 DEF Holds, States
<1>3. owner \in [Open -> others]
  BY <1>1
<1>4. ASSUME NEW a \in Open, NEW b \in Open, a[1] = b[1] PROVE a = b
  <2>1. a[2] = b[2]
    BY <1>1, <1>2, <1>4
  <2>2. QED BY <1>1, <1>4, <2>1
<1>5. owner \in Injection(Open, others)
  BY <1>3, <1>4 DEF Injection, IsInjective
<1>6. IsFiniteSet(others) /\ Cardinality(others) = Cardinality(Openers) - 1
  BY FS_RemoveElement DEF EnoughDescriptors
<1>7. IsFiniteSet(Open) /\ Cardinality(Open) <= Cardinality(others)
  BY <1>5, <1>6, FS_Injection
<1>8. Cardinality(Open) \in Nat /\ Cardinality(Openers) \in Nat
  BY <1>7, FS_CardinalityType DEF EnoughDescriptors
<1>9. ~(Cardinality(Open) >= Descriptors)
  BY <1>6, <1>7, <1>8, OpenersAssumption DEF EnoughDescriptors
<1>10. QED BY <1>9 DEF MakeError

(* A call nothing happened to is as far as it was.                         *)
LEMMA FitKept ==
  ASSUME NEW o \in Openers, Fit(o), bind' = bind, host' = host,
         pc'[o] = pc[o], heard'[o] = heard[o],
         socks'[<<o, "dual">>] = socks[<<o, "dual">>],
         socks'[<<o, "plain">>] = socks[<<o, "plain">>]
  PROVE  Fit(o)'
<1>1. /\ FamilyOf(o)' = FamilyOf(o) /\ HasIPv6' = HasIPv6
      /\ Asked(o)' = Asked(o) /\ \A x : Serves(x)' = Serves(x)
  BY DEF FamilyOf, HasIPv6, Asked, Serves
<1>2. QED BY <1>1 DEF Fit

(* A step of one call is nothing to the others.                            *)
LEMMA OthersFit ==
  ASSUME IInv, AllFit, NEW o \in Openers, NEW k \in {"dual", "plain"},
         NEW s, NEW to, NEW error,
         Goes(o, to), Put(<<o, k>>, s) \/ UNCHANGED socks,
         UNCHANGED heard \/ heard' = [heard EXCEPT ![o] = error],
         UNCHANGED args,
         Fit(o)'
  PROVE  AllFit'
<1>1. \A p \in Openers, j \in {"dual", "plain"} : <<p, j>> \in Attempts
  BY DEF Attempts
<1>2. Elsewhere(o)
  BY <1>1 DEF IInv, TypeOK, Elsewhere, Goes, Put
<1>3. UNCHANGED <<host, bind, reuse>>
  BY DEF args
<1>4. ASSUME NEW p \in Openers \ {o} PROVE Fit(p)'
  <2>1. /\ pc'[p] = pc[p] /\ heard'[p] = heard[p] /\ bind' = bind /\ host' = host
        /\ socks'[<<p, "dual">>] = socks[<<p, "dual">>]
        /\ socks'[<<p, "plain">>] = socks[<<p, "plain">>]
    BY <1>2, <1>3 DEF Elsewhere
  <2>2. Fit(p)
    BY DEF AllFit
  <2>3. QED BY <2>1, <2>2, FitKept
<1>5. QED BY <1>4 DEF AllFit

(* Where a call goes.                                                      *)
LEMMA Gone ==
  ASSUME IInv, NEW o \in Openers, NEW to, Goes(o, to)
  PROVE  pc'[o] = to
BY DEF IInv, TypeOK, Goes

LEMMA Raised ==
  ASSUME IInv, NEW o \in Openers, NEW error, Raise(o, error)
  PROVE  pc'[o] = "raised" /\ heard'[o] = error
BY DEF IInv, TypeOK, Goes, Raise

LEMMA InitFit == Init => AllFit
BY OpenersAssumption DEF Init, AllFit, Fit

-----------------------------------------------------------------------------
LEMMA DualFits ==
  ASSUME IInv, AllFit, EnoughDescriptors, NEW o \in Openers,
         MakeDual(o) \/ ClearDual(o) \/ PrepareDual(o) \/ BindDual(o)
  PROVE  AllFit'
<1> DEFINE dual == socks[<<o, "dual">>]
<1>1. /\ Holds(o) /\ Fit(o) /\ host \in Hosts /\ bind[o] \in Binds
      /\ "dual" \in {"dual", "plain"} /\ "plain" \in {"dual", "plain"}
  BY DEF IInv, AllFit, TypeOK
<1>2. bind[o] = None /\ UNCHANGED args /\ bind' = bind /\ host' = host
  BY <1>1 DEF Fit, MakeDual, ClearDual, PrepareDual, BindDual, args
<1>3. FamilyOf(o) = 4
  BY <1>2, OpenersAssumption DEF FamilyOf, Wildcards
(* Given up, for want of IPv6 or to be heard of, nothing is asked of it.   *)
<1>a. ASSUME Shut(<<o, "dual">>) \/ UNCHANGED socks, FallBack(o), ~HasIPv6
      PROVE  AllFit'
  <2>1. pc'[o] = "plain"
    BY <1>a, Gone DEF FallBack
  <2>2. Fit(o)'
    BY <1>2, <1>a, <2>1 DEF Fit, HasIPv6
  <2>3. QED BY <1>1, <1>2, <1>a, <2>2, OthersFit DEF Shut, FallBack
<1>b. ASSUME NEW error \in {"EADDRINUSE", "EACCES"}, Shut(<<o, "dual">>),
             Raise(o, error)
      PROVE  AllFit'
  <2>1. pc'[o] = "raised" /\ heard'[o] = error
    BY <1>b, Raised
  <2>2. Fit(o)'
    BY <1>b, <2>1 DEF Fit
  <2>3. QED BY <1>1, <1>2, <1>b, <2>2, OthersFit DEF Shut, Raise
<1>c. ASSUME NEW s, Put(<<o, "dual">>, s), UNCHANGED heard, NEW to, Goes(o, to),
             Fit(o)'
      PROVE  AllFit'
  BY <1>1, <1>2, <1>c, OthersFit
<1>4. CASE MakeDual(o)
  <2>1. MakeError(6) = IF ~host.make THEN "EAFNOSUPPORT" ELSE None
    BY <1>1, <1>4, DescriptorLeft DEF MakeDual, Holds
  <2>2. CASE MakeError(6) = None /\ Put(<<o, "dual">>, New(6))
             /\ Goes(o, "dual clear") /\ UNCHANGED heard
    <3>1. host.make
      BY <2>1, <2>2, OpenersAssumption DEF Errors
    <3>2. /\ pc'[o] = "dual clear"
          /\ socks'[<<o, "dual">>] = New(6)
      <4>1. pc'[o] = "dual clear"
        BY <2>2, Gone
      <4>2. socks'[<<o, "dual">>] = New(6)
        BY <1>1, <2>2, PutThere DEF IInv
      <4>3. QED BY <4>1, <4>2
    <3>3. New(6).family = 6
      BY DEF New
    <3>4. Fit(o)'
      BY <1>2, <3>1, <3>2, <3>3 DEF Fit
    <3>5. QED BY <1>c, <2>2, <3>4
  <2>3. CASE MakeError(6) # None /\ FallBack(o) /\ UNCHANGED socks
    BY <1>a, <2>1, <2>3 DEF HasIPv6
  <2>4. QED BY <1>4, <2>2, <2>3 DEF MakeDual
<1>5. CASE ClearDual(o)
  <2>1. CASE host.clear # "ok" /\ NoClear(o)
    BY <1>a, <2>1 DEF NoClear, HasIPv6
  <2>2. CASE host.clear = "ok" /\ Put(<<o, "dual">>, [dual EXCEPT !.only6 = FALSE])
             /\ Goes(o, "dual prepare") /\ UNCHANGED heard
    <3>1. dual \in Socket /\ dual.family = 6 /\ host.make
      BY <1>1, <1>5 DEF ClearDual, Fit, Holds, IInv, TypeOK, Attempts
    <3>2. /\ [dual EXCEPT !.only6 = FALSE].family = 6
          /\ ~[dual EXCEPT !.only6 = FALSE].only6
      BY <3>1 DEF Socket
    <3>3. /\ pc'[o] = "dual prepare"
          /\ socks'[<<o, "dual">>] = [dual EXCEPT !.only6 = FALSE]
      <4>1. pc'[o] = "dual prepare"
        BY <2>2, Gone
      <4>2. socks'[<<o, "dual">>] = [dual EXCEPT !.only6 = FALSE]
        BY <1>1, <2>2, PutThere DEF IInv
      <4>3. QED BY <4>1, <4>2
    <3>4. Fit(o)'
      BY <1>2, <2>2, <3>1, <3>2, <3>3 DEF Fit
    <3>5. QED BY <1>c, <2>2, <3>4
  <2>3. QED BY <1>5, <2>1, <2>2 DEF ClearDual
<1>6. CASE PrepareDual(o)
  <2>1. CASE BindFails(o, "EACCES")
    BY <1>b, <2>1 DEF BindFails, NoIPv6
  <2>2. CASE Put(<<o, "dual">>, [dual EXCEPT !.reuse = reuse[o]])
             /\ Goes(o, "dual bind") /\ UNCHANGED heard
    <3>1. /\ dual \in Socket /\ dual.family = 6 /\ host.make
          /\ ~dual.only6 /\ host.clear = "ok"
      BY <1>1, <1>6 DEF PrepareDual, Fit, Holds, IInv, TypeOK, Attempts
    <3>2. /\ [dual EXCEPT !.reuse = reuse[o]].family = 6
          /\ ~[dual EXCEPT !.reuse = reuse[o]].only6
      BY <3>1 DEF Socket
    <3>3. /\ pc'[o] = "dual bind"
          /\ socks'[<<o, "dual">>] = [dual EXCEPT !.reuse = reuse[o]]
      <4>1. pc'[o] = "dual bind"
        BY <2>2, Gone
      <4>2. socks'[<<o, "dual">>] = [dual EXCEPT !.reuse = reuse[o]]
        BY <1>1, <2>2, PutThere DEF IInv
      <4>3. QED BY <4>1, <4>2
    <3>4. Fit(o)'
      BY <1>2, <3>1, <3>2, <3>3 DEF Fit
    <3>5. QED BY <1>c, <2>2, <3>4
  <2>3. QED BY <1>6, <2>1, <2>2 DEF PrepareDual
<1>7. CASE BindDual(o)
  <2> DEFINE error == BindError(dual, "::")
  <2>1. /\ dual \in Socket /\ dual.family = 6 /\ host.make
        /\ ~dual.only6 /\ host.clear = "ok"
    BY <1>1, <1>7 DEF BindDual, Fit, Holds, IInv, TypeOK, Attempts
  <2>2. /\ error \in {"EADDRNOTAVAIL", "EADDRINUSE", None}
        /\ error = "EADDRNOTAVAIL" => ~host.bind
        /\ error = None => host.bind
    BY <2>1, OpenersAssumption DEF BindError, Errors
  <2>3. CASE error # None /\ BindFails(o, error)
    BY <1>a, <1>b, <2>2, <2>3 DEF BindFails, NoIPv6, HasIPv6
  <2>4. CASE error = None /\ Put(<<o, "dual">>, [dual EXCEPT !.addr = "::"])
             /\ Goes(o, "returned") /\ UNCHANGED heard
    <3> DEFINE s == [dual EXCEPT !.addr = "::"]
    <3>1. s.addr = "::" /\ ~s.only6
      BY <2>1 DEF Socket
    <3>2. /\ pc'[o] = "returned" /\ socks'[<<o, "dual">>] = s
          /\ socks'[<<o, "plain">>] = None
      <4>1. pc'[o] = "returned"
        BY <2>4, Gone
      <4>2. socks[<<o, "plain">>] = None
        BY <1>1, <1>7 DEF BindDual, Holds
      <4>3. socks'[<<o, "dual">>] = s /\ socks'[<<o, "plain">>] = None
        BY <1>1, <2>4, <4>2, PutThere DEF IInv
      <4>4. QED BY <4>1, <4>3
    <3> HIDE DEF s
    <3>3. Serves(s) = V6 \cup V4
      BY <3>1, WhatIsServed
    <3>4. Asked(o)' = Asked(o) /\ \A x : Serves(x)' = Serves(x)
      BY <1>2 DEF Asked, Serves
    <3>5. Asked(o) = V6 \cup V4
      BY <1>2, <2>1, <2>2, <2>4, WhatIsAsked DEF HasIPv6
    <3>6. Fit(o)'
      BY <3>2, <3>3, <3>4, <3>5 DEF Fit
    <3>7. QED BY <1>c, <2>4, <3>6 DEF s
  <2>5. QED BY <1>7, <2>3, <2>4 DEF BindDual
<1>8. QED BY <1>4, <1>5, <1>6, <1>7

(* The named address, or IPv4 where the default found no IPv6.             *)
LEMMA PlainFits ==
  ASSUME IInv, AllFit, EnoughDescriptors, NEW o \in Openers,
         MakePlain(o) \/ ClearPlain(o) \/ PreparePlain(o) \/ BindPlain(o)
  PROVE  AllFit'
<1> DEFINE plain == socks[<<o, "plain">>]
<1>1. /\ Holds(o) /\ Fit(o) /\ host \in Hosts /\ bind[o] \in Binds
      /\ "dual" \in {"dual", "plain"} /\ "plain" \in {"dual", "plain"}
  BY DEF IInv, AllFit, TypeOK
<1>2. /\ UNCHANGED args /\ bind' = bind /\ host' = host
      /\ ~(bind[o] = None /\ HasIPv6) /\ socks[<<o, "dual">>] = None
      /\ MakePlain(o) \/ plain \in Socket
  BY <1>1 DEF Fit, MakePlain, ClearPlain, PreparePlain, BindPlain, args, Holds,
              IInv, TypeOK, Attempts
<1>3. /\ FamilyOf(o) \in {4, 6} /\ (bind[o] = None => FamilyOf(o) = 4)
      /\ (FamilyOf(o) = 6 => bind[o] # None)
  BY OpenersAssumption DEF FamilyOf, Wildcards
<1>4. FamilyOf(o)' = FamilyOf(o) /\ HasIPv6' = HasIPv6
  BY <1>2 DEF FamilyOf, HasIPv6
<1>a. ASSUME NEW error, Raise(o, error),
             Shut(<<o, "plain">>) \/ UNCHANGED socks,
             bind[o] = None => error \in {"EADDRINUSE", "EACCES"}
      PROVE  AllFit'
  <2>1. pc'[o] = "raised" /\ heard'[o] = error
    BY <1>a, Raised
  <2>2. Fit(o)'
    BY <1>2, <1>a, <2>1 DEF Fit
  <2>3. QED BY <1>1, <1>2, <1>a, <2>2, OthersFit DEF Shut, Raise
<1>b. ASSUME NEW s, Put(<<o, "plain">>, s), UNCHANGED heard,
             NEW to \in {"plain clear", "plain prepare", "plain bind"},
             Goes(o, to), s.family = FamilyOf(o),
             to = "plain clear" => bind[o] = "::",
             to # "plain clear" /\ bind[o] = "::" => ~s.only6
      PROVE  AllFit'
  <2>1. pc'[o] = to
    BY <1>b, Gone
  <2>2. socks'[<<o, "plain">>] = s
    BY <1>1, <1>b, PutThere DEF IInv
  <2>3. Fit(o)'
    BY <1>2, <1>4, <1>b, <2>1, <2>2 DEF Fit
  <2>4. QED BY <1>1, <1>2, <1>b, <2>3, OthersFit
<1>5. CASE MakePlain(o)
  <2> DEFINE f == FamilyOf(o)
             to == IF bind[o] = "::" THEN "plain clear" ELSE "plain prepare"
  <2>1. MakeError(f) = IF f = 6 /\ ~host.make THEN "EAFNOSUPPORT" ELSE None
    BY <1>1, <1>3, <1>5, DescriptorLeft DEF MakePlain, Holds
  <2>2. CASE Put(<<o, "plain">>, New(f)) /\ Goes(o, to) /\ UNCHANGED heard
    <3>1. New(f).family = f
      BY DEF New
    <3>2. /\ to \in {"plain clear", "plain prepare", "plain bind"}
          /\ to = "plain clear" <=> bind[o] = "::"
      OBVIOUS
    <3> HIDE DEF to
    <3>3. QED BY <1>b, <2>2, <3>1, <3>2
  <2>3. CASE MakeError(f) # None /\ Raise(o, MakeError(f)) /\ UNCHANGED socks
    <3>1. bind[o] # None
      BY <1>3, <2>1, <2>3
    <3>2. QED BY <1>a, <2>3, <3>1
  <2>4. QED BY <1>5, <2>2, <2>3 DEF MakePlain
<1>6. CASE ClearPlain(o)
  <2>1. bind[o] = "::" /\ bind[o] # None
    BY <1>1, <1>6, OpenersAssumption DEF ClearPlain, Fit, Wildcards
  <2>2. CASE Shut(<<o, "plain">>) /\ Raise(o, host.clear)
    BY <1>a, <2>1, <2>2
  <2>3. CASE Put(<<o, "plain">>, [plain EXCEPT !.only6 = FALSE])
             /\ Goes(o, "plain prepare") /\ UNCHANGED heard
    <3> DEFINE s == [plain EXCEPT !.only6 = FALSE]
    <3>1. plain \in Socket /\ plain.family = FamilyOf(o)
      BY <1>1, <1>6 DEF ClearPlain, Fit, Holds, IInv, TypeOK, Attempts
    <3>2. s.family = FamilyOf(o) /\ ~s.only6
      BY <3>1 DEF Socket
    <3> HIDE DEF s
    <3>3. QED BY <1>b, <2>3, <3>2 DEF s
  <2>4. QED BY <1>6, <2>2, <2>3 DEF ClearPlain
<1>7. CASE PreparePlain(o)
  <2>1. CASE Shut(<<o, "plain">>) /\ Raise(o, "EACCES")
    BY <1>a, <2>1
  <2>2. CASE Put(<<o, "plain">>, [plain EXCEPT !.reuse = reuse[o]])
             /\ Goes(o, "plain bind") /\ UNCHANGED heard
    <3> DEFINE s == [plain EXCEPT !.reuse = reuse[o]]
    <3>1. /\ plain \in Socket /\ plain.family = FamilyOf(o)
          /\ bind[o] = "::" => ~plain.only6
      BY <1>1, <1>7 DEF PreparePlain, Fit, Holds, IInv, TypeOK, Attempts
    <3>2. s.family = FamilyOf(o) /\ (bind[o] = "::" => ~s.only6)
      BY <3>1 DEF Socket
    <3> HIDE DEF s
    <3>3. QED BY <1>b, <2>2, <3>2 DEF s
  <2>3. QED BY <1>7, <2>1, <2>2 DEF PreparePlain
<1>8. CASE BindPlain(o)
  <2> DEFINE at == Resolve(HostOf(o))
             error == BindError(plain, HostOf(o))
             s == [plain EXCEPT !.addr = at]
  <2>1. /\ plain \in Socket /\ plain.family = FamilyOf(o)
        /\ bind[o] = "::" => ~plain.only6
    BY <1>1, <1>8 DEF BindPlain, Fit, Holds, IInv, TypeOK, Attempts
  <2>2. CASE error # None /\ Shut(<<o, "plain">>) /\ Raise(o, error)
    <3>1. bind[o] = None => error = "EADDRINUSE"
      BY <1>3, <2>1, <2>2 DEF BindError, HostOf
    <3>2. QED BY <1>a, <2>2, <3>1
  <2>3. CASE error = None /\ Put(<<o, "plain">>, s)
             /\ Goes(o, "returned") /\ UNCHANGED heard
    <3>1. HostOf(o) # "gone.example"
      BY <2>3, OpenersAssumption DEF BindError, Errors
    <3>2. s.addr = at /\ s.only6 = plain.only6
      BY <2>1 DEF Socket
    <3> HIDE DEF s
    <3>3. Serves(s) = Asked(o)
      <4>1. CASE bind[o] = None
        BY <1>2, <3>2, <4>1, WhatIsServed, WhatIsAsked DEF HostOf, Resolve
      <4>2. CASE bind[o] = "::"
        BY <2>1, <3>2, <4>2, WhatIsServed, WhatIsAsked, OpenersAssumption
           DEF HostOf, Resolve, Wildcards
      <4>3. CASE bind[o] = "0.0.0.0"
        BY <3>2, <4>3, WhatIsServed, WhatIsAsked, OpenersAssumption
           DEF HostOf, Resolve, Wildcards
      <4>4. CASE bind[o] \notin {None, "::", "0.0.0.0"}
        <5>1. at \in V4 \cup V6 /\ at = Resolve(bind[o])
          BY <1>1, <3>1, <4>4 DEF HostOf, Resolve, Binds, Names, V4, V6
        <5> HIDE DEF at
        <5>2. QED BY <3>2, <4>4, <5>1, WhatIsServed, WhatIsAsked
      <4>5. QED BY <4>1, <4>2, <4>3, <4>4
    <3>4. pc'[o] = "returned"
      BY <2>3, Gone
    <3>5. socks'[<<o, "plain">>] = s /\ socks'[<<o, "dual">>] = None
      BY <1>1, <1>2, <2>3, PutThere DEF IInv
    <3>6. Asked(o)' = Asked(o) /\ \A x : Serves(x)' = Serves(x)
      BY <1>2 DEF Asked, Serves
    <3>7. Fit(o)'
      BY <3>3, <3>4, <3>5, <3>6 DEF Fit
    <3>8. QED BY <1>1, <1>2, <2>3, <3>7, OthersFit
  <2>4. QED BY <1>8, <2>2, <2>3 DEF BindPlain
<1>9. QED BY <1>5, <1>6, <1>7, <1>8

(* What happens from outside asks nothing more of the call.                *)
LEMMA RestFits ==
  ASSUME IInv, AllFit, NEW o \in Openers, Interrupt(o) \/ Collect(o) \/ Close(o)
  PROVE  AllFit'
<1>1. UNCHANGED args /\ bind' = bind
  BY DEF Interrupt, Collect, Close, args
<1>2. "dual" \in {"dual", "plain"} /\ "plain" \in {"dual", "plain"}
  OBVIOUS
<1>3. CASE Interrupt(o)
  <2>1. Raise(o, "KeyboardInterrupt")
    BY <1>3 DEF Interrupt
  <2>2. pc'[o] = "raised" /\ heard'[o] = "KeyboardInterrupt"
    BY <2>1, Raised
  <2>3. Fit(o)'
    BY <2>2 DEF Fit
  <2>4. \/ UNCHANGED socks \/ Shut(<<o, "dual">>) \/ Shut(<<o, "plain">>)
    BY <1>3 DEF Interrupt
  <2>5. QED BY <1>1, <1>2, <2>1, <2>3, <2>4, OthersFit DEF Shut, Raise
<1>4. CASE Collect(o)
  <2>1. Goes(o, "raised") /\ heard' = heard /\ pc[o] = "raised" /\ Fit(o)
    BY <1>4 DEF Collect, Goes, IInv, TypeOK, AllFit
  <2>2. pc'[o] = "raised"
    BY <2>1, Gone
  <2>3. Fit(o)'
    BY <1>1, <2>1, <2>2 DEF Fit
  <2>4. QED BY <1>1, <1>2, <1>4, <2>1, <2>3, OthersFit DEF Collect, Shut
<1>5. CASE Close(o)
  <2>1. Goes(o, "closed") /\ heard' = heard
    BY <1>5 DEF Close
  <2>2. pc'[o] = "closed"
    BY <2>1, Gone
  <2>3. Fit(o)'
    BY <2>2 DEF Fit
  <2>4. PICK k \in {"dual", "plain"} : Shut(<<o, k>>)
    BY <1>5 DEF Close
  <2>5. QED BY <1>1, <2>1, <2>3, <2>4, OthersFit DEF Shut
<1>6. QED BY <1>3, <1>4, <1>5

LEMMA FitAlways ==
  ASSUME EnoughDescriptors PROVE Spec => [](IInv /\ AllFit)
<1>1. Init => IInv /\ AllFit
  BY InitIInv, InitFit
<1>2. IInv /\ AllFit /\ [Next]_vars => AllFit'
  <2> SUFFICES ASSUME IInv, AllFit, [Next]_vars PROVE AllFit'
    OBVIOUS
  <2>1. CASE Next
    <3>1. PICK o \in Openers :
            \/ MakeDual(o) \/ ClearDual(o) \/ PrepareDual(o) \/ BindDual(o)
            \/ MakePlain(o) \/ ClearPlain(o) \/ PreparePlain(o) \/ BindPlain(o)
            \/ Interrupt(o) \/ Collect(o) \/ Close(o)
      BY <2>1 DEF Next
    <3>2. QED BY <3>1, DualFits, PlainFits, RestFits
  <2>2. CASE UNCHANGED vars
    <3>1. UNCHANGED <<host, bind, pc, socks, heard>>
      BY <2>2 DEF vars, args
    <3>2. ASSUME NEW o \in Openers PROVE Fit(o)'
      <4>1. Fit(o)
        BY DEF AllFit
      <4>2. QED BY <3>1, <4>1, FitKept
    <3>3. QED BY <3>2 DEF AllFit
  <2>3. QED BY <2>1, <2>2
<1>3. QED BY <1>1, <1>2, NextIInv, PTL DEF Spec

(* With a descriptor for each, every collector listens where it was asked  *)
(* to and nowhere else, the default on both families wherever the host has *)
(* IPv6 to give, however many bind at once (collector.py:70-157).          *)
THEOREM EveryoneServed ==
  ASSUME EnoughDescriptors PROVE Spec => []ServesAsAsked
<1>1. IInv /\ AllFit => ServesAsAsked
  <2> SUFFICES ASSUME IInv, AllFit, NEW o \in Openers, pc[o] = "returned",
                      NEW a \in Open, a[1] = o
               PROVE  Serves(socks[a]) = Asked(o)
    BY DEF ServesAsAsked
  <2>1. a \in Attempts /\ socks[a] # None
    BY DEF Open
  <2>2. a = <<o, "dual">> \/ a = <<o, "plain">>
    BY <2>1 DEF Attempts
  <2>3. Fit(o)
    BY DEF AllFit
  <2>4. QED BY <2>1, <2>2, <2>3 DEF Fit
<1>2. QED BY <1>1, FitAlways, PTL

(* With a descriptor for each, a default collector is refused on no host   *)
(* for want of IPv6: only by the port, a permission or an interrupt.       *)
THEOREM DefaultIsServed ==
  ASSUME EnoughDescriptors PROVE Spec => []DefaultStarts
<1>1. AllFit => DefaultStarts
  BY DEF AllFit, Fit, DefaultStarts
<1>2. QED BY <1>1, FitAlways, PTL
=============================================================================
