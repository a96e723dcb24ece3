----------------------------- MODULE OpenSocket -----------------------------
(***************************************************************************)
(* _open_socket: collectors that bind one port of one host, in one process *)
(* and at the same time, each by a call that may fail at any of its steps  *)
(* and, for the wildcard, falls back from a dual-stack socket to IPv4.     *)
(*                                                                         *)
(* The host may lack IPv6 in each of the ways the code names, and may have *)
(* IPV6_V6ONLY on or off by default.  A socket is what the kernel keeps of *)
(* it.  SO_RCVBUF, whose failure is ignored, changes nothing here and is   *)
(* left out.                                                               *)
(***************************************************************************)
EXTENDS Naturals, FiniteSets

CONSTANTS Openers,     \* the calls of _open_socket
          None,        \* Python's None
          Descriptors  \* how many sockets the process may have open

V4 == {"192.0.2.1", "192.0.2.2"}
V6 == {"2001:db8::1", "::1"}
Names == {"collector.example", "gone.example"}
Wildcards == {"0.0.0.0", "::"}
Binds == {None, "0.0.0.0", "::", "192.0.2.1", "2001:db8::1"} \cup Names

(* What getaddrinfo makes of a host: the kernel never sees a name.         *)
Resolve(h) == IF h = "collector.example" THEN "192.0.2.2" ELSE h

VARIABLES host,    \* what this host can do of IPv6
          bind,    \* opener -> its argument
          reuse,   \* opener -> its reuse_address
          pc,      \* opener -> where its call is
          socks,   \* (opener, attempt) -> the socket, or None
          heard    \* opener -> the error it raised, or None

args == <<host, bind, reuse>>
vars == <<args, pc, socks, heard>>

(* The two sockets a call may make: the default one, and the one after it. *)
Attempts == Openers \X {"dual", "plain"}

Hosts == [make : BOOLEAN, clear : {"ok", "ENOPROTOOPT", "AttributeError"},
          bind : BOOLEAN, only6 : BOOLEAN]
Socket == [family : {4, 6}, only6 : BOOLEAN, reuse : BOOLEAN,
           addr : V4 \cup V6 \cup Wildcards \cup {None}]
Errors == {"EMFILE", "EAFNOSUPPORT", "EADDRNOTAVAIL", "EADDRINUSE", "EACCES",
           "ENOPROTOOPT", "AttributeError", "gaierror", "KeyboardInterrupt"}

ASSUME OpenersAssumption == /\ Descriptors \in Nat \ {0}
                            /\ None \notin Socket \cup Errors
                            /\ None \notin V4 \cup V6 \cup Wildcards \cup Names

Init == /\ host \in Hosts
        /\ bind \in [Openers -> Binds]
        /\ reuse \in [Openers -> BOOLEAN]
        /\ pc = [o \in Openers |-> IF bind[o] = None THEN "dual" ELSE "plain"]
        /\ socks = [a \in Attempts |-> None]
        /\ heard = [o \in Openers |-> None]

-----------------------------------------------------------------------------
(* The kernel.                                                             *)
Open == {a \in Attempts : socks[a] # None}

(* The addresses of this host a bound socket receives on.                  *)
Serves(s) == CASE s.addr = "0.0.0.0" -> V4
               [] s.addr = "::" -> IF s.only6 THEN V6 ELSE V6 \cup V4
               [] s.addr = None -> {}
               [] OTHER -> {s.addr}

(* Two sockets share an address of the port only if both said so.          *)
Taken(s) == \E a \in Open : /\ Serves(socks[a]) \cap Serves(s) # {}
                            /\ ~(socks[a].reuse /\ s.reuse)

MakeError(family) == IF Cardinality(Open) >= Descriptors THEN "EMFILE"
                     ELSE IF family = 6 /\ ~host.make THEN "EAFNOSUPPORT"
                     ELSE None

BindError(s, h) == IF h = "gone.example" THEN "gaierror"
                   ELSE IF s.family = 6 /\ ~host.bind THEN "EADDRNOTAVAIL"
                   ELSE IF Taken([s EXCEPT !.addr = Resolve(h)]) THEN "EADDRINUSE"
                   ELSE None

-----------------------------------------------------------------------------
Goes(o, to) == pc' = [pc EXCEPT ![o] = to]

Put(a, s) == socks' = [socks EXCEPT ![a] = s]
Shut(a) == Put(a, None)

Raise(o, error) == Goes(o, "raised") /\ heard' = [heard EXCEPT ![o] = error]
FallBack(o) == Goes(o, "plain") /\ UNCHANGED heard

New(family) == [family |-> family, only6 |-> host.only6, reuse |-> FALSE,
                addr |-> None]

(* _dual_stack: the socket,                                                *)
MakeDual(o) ==
  /\ pc[o] = "dual"
  /\ \/ /\ MakeError(6) = None
        /\ Put(<<o, "dual">>, New(6)) /\ Goes(o, "dual clear") /\ UNCHANGED heard
     \/ /\ MakeError(6) # None
        /\ FallBack(o) /\ UNCHANGED socks
  /\ UNCHANGED args

(* Mutants: the failed attempt is not closed; it is the caller's to hear.  *)
NoClearKeeping(o) == FallBack(o) /\ UNCHANGED socks
NoClearRaising(o) == Shut(<<o, "dual">>) /\ Raise(o, host.clear)
NoClear(o) == Shut(<<o, "dual">>) /\ FallBack(o)

(* clearing IPV6_V6ONLY,                                                   *)
ClearDual(o) ==
  /\ pc[o] = "dual clear"
  /\ \/ /\ host.clear = "ok"
        /\ Put(<<o, "dual">>, [socks[<<o, "dual">>] EXCEPT !.only6 = FALSE])
        /\ Goes(o, "dual prepare") /\ UNCHANGED heard
     \/ host.clear # "ok" /\ NoClear(o)
  /\ UNCHANGED args

(* Mutant of NoIPv6: any failure to bind is taken for want of IPv6.        *)
AnyError == Errors
NoIPv6 == {"EADDRNOTAVAIL", "EAFNOSUPPORT"}

BindFails(o, error) ==
  /\ Shut(<<o, "dual">>)
  /\ \/ error \in NoIPv6 /\ FallBack(o)
     \/ error \notin NoIPv6 /\ Raise(o, error)

(* and _prepare_and_bind, in two steps: another call may come between.     *)
PrepareDual(o) ==
  /\ pc[o] = "dual prepare"
  /\ \/ /\ Put(<<o, "dual">>, [socks[<<o, "dual">>] EXCEPT !.reuse = reuse[o]])
        /\ Goes(o, "dual bind") /\ UNCHANGED heard
     \/ reuse[o] /\ BindFails(o, "EACCES")
  /\ UNCHANGED args

BindDual(o) ==
  /\ pc[o] = "dual bind"
  /\ LET s == socks[<<o, "dual">>]
         error == BindError(s, "::")
     IN  \/ /\ error = None
            /\ Put(<<o, "dual">>, [s EXCEPT !.addr = "::"])
            /\ Goes(o, "returned") /\ UNCHANGED heard
         \/ error # None /\ BindFails(o, error)
  /\ UNCHANGED args

-----------------------------------------------------------------------------
(* The rest of _open_socket: a named address, or what the wildcard falls   *)
(* back to.                                                                *)
HostOf(o) == IF bind[o] = None THEN "0.0.0.0" ELSE bind[o]
FamilyOf(o) == IF bind[o] \in V6 \cup {"::"} THEN 6 ELSE 4

MakePlain(o) ==
  /\ pc[o] = "plain"
  /\ LET error == MakeError(FamilyOf(o))
     IN  \/ /\ error = None
            /\ Put(<<o, "plain">>, New(FamilyOf(o)))
            /\ Goes(o, IF bind[o] = "::" THEN "plain clear" ELSE "plain prepare")
            /\ UNCHANGED heard
         \/ error # None /\ Raise(o, error) /\ UNCHANGED socks
  /\ UNCHANGED args

ClearPlain(o) ==
  /\ pc[o] = "plain clear"
  /\ \/ /\ host.clear = "ok"
        /\ Put(<<o, "plain">>, [socks[<<o, "plain">>] EXCEPT !.only6 = FALSE])
        /\ Goes(o, "plain prepare") /\ UNCHANGED heard
     \/ host.clear # "ok" /\ Shut(<<o, "plain">>) /\ Raise(o, host.clear)
  /\ UNCHANGED args

PreparePlain(o) ==
  /\ pc[o] = "plain prepare"
  /\ \/ /\ Put(<<o, "plain">>, [socks[<<o, "plain">>] EXCEPT !.reuse = reuse[o]])
        /\ Goes(o, "plain bind") /\ UNCHANGED heard
     \/ reuse[o] /\ Shut(<<o, "plain">>) /\ Raise(o, "EACCES")
  /\ UNCHANGED args

BindPlain(o) ==
  /\ pc[o] = "plain bind"
  /\ LET s == socks[<<o, "plain">>]
         error == BindError(s, HostOf(o))
     IN  \/ /\ error = None
            /\ Put(<<o, "plain">>, [s EXCEPT !.addr = Resolve(HostOf(o))])
            /\ Goes(o, "returned") /\ UNCHANGED heard
         \/ error # None /\ Shut(<<o, "plain">>) /\ Raise(o, error)
  /\ UNCHANGED args

-----------------------------------------------------------------------------
(* KeyboardInterrupt, or any other BaseException, while a socket is being  *)
(* set up.  _dual_stack guards the bind against it but not the clearing of *)
(* IPV6_V6ONLY: that socket is left to the garbage collector.              *)
Interrupt(o) ==
  /\ \/ pc[o] \in {"dual prepare", "dual bind"} /\ Shut(<<o, "dual">>)
     \/ pc[o] \in {"plain clear", "plain prepare", "plain bind"}
        /\ Shut(<<o, "plain">>)
     \/ pc[o] = "dual clear" /\ UNCHANGED socks
  /\ Raise(o, "KeyboardInterrupt")
  /\ UNCHANGED args

Collect(o) ==
  /\ pc[o] = "raised" /\ socks[<<o, "dual">>] # None
  /\ Shut(<<o, "dual">>)
  /\ UNCHANGED <<args, pc, heard>>

(* Collector.close.                                                        *)
Close(o) ==
  /\ pc[o] = "returned"
  /\ \E a \in {o} \X {"dual", "plain"} : socks[a] # None /\ Shut(a)
  /\ Goes(o, "closed")
  /\ UNCHANGED <<args, heard>>

Next == \E o \in Openers :
  \/ MakeDual(o) \/ ClearDual(o) \/ PrepareDual(o) \/ BindDual(o)
  \/ MakePlain(o) \/ ClearPlain(o) \/ PreparePlain(o) \/ BindPlain(o)
  \/ Interrupt(o) \/ Collect(o) \/ Close(o)

Spec == Init /\ [][Next]_vars

-----------------------------------------------------------------------------
States == {"dual", "dual clear", "dual prepare", "dual bind", "plain",
           "plain clear", "plain prepare", "plain bind", "returned", "raised",
           "closed"}

(* The kernel's sockets and the errors heard are of their kinds.           *)
TypeOK == /\ host \in Hosts
          /\ bind \in [Openers -> Binds] /\ reuse \in [Openers -> BOOLEAN]
          /\ pc \in [Openers -> States]
          /\ socks \in [Attempts -> Socket \cup {None}]
          /\ heard \in [Openers -> Errors \cup {None}]

(* Whichever of the steps fails, of whichever attempt: the socket returned *)
(* is the only one the call leaves, and a call that raised holds neither a *)
(* descriptor nor the port, but for the socket of an interrupted clearing, *)
(* which is bound to nothing.                                              *)
NothingLeft ==
  \A o \in Openers :
    LET mine == {a \in Open : a[1] = o}
    IN  /\ pc[o] = "returned" => \E a \in mine : mine = {a}
        /\ pc[o] \in {"raised", "closed"} =>
             \A a \in mine : /\ heard[o] = "KeyboardInterrupt"
                             /\ socks[a].addr = None
        /\ pc[o] \in {"plain", "plain clear", "plain prepare", "plain bind"} =>
             <<o, "dual">> \notin mine

(* A collector listens where it was asked to and nowhere else: the default *)
(* on both families wherever the host has IPv6 to give it, and on all of   *)
(* IPv4 elsewhere; a named address on itself alone.                        *)
Asked(o) == CASE bind[o] = None -> IF host.make /\ host.clear = "ok" /\ host.bind
                                   THEN V6 \cup V4 ELSE V4
              [] bind[o] = "::" -> V6 \cup V4
              [] bind[o] = "0.0.0.0" -> V4
              [] OTHER -> {Resolve(bind[o])}

ServesAsAsked ==
  \A o \in Openers : pc[o] = "returned" =>
    \A a \in Open : a[1] = o => Serves(socks[a]) = Asked(o)

(* A default collector starts on any host: it is refused only for reasons  *)
(* that have nothing to do with IPv6.                                      *)
DefaultStarts ==
  \A o \in Openers : bind[o] = None /\ pc[o] = "raised" =>
    heard[o] \in {"EADDRINUSE", "EACCES", "KeyboardInterrupt"}
=============================================================================
