------------------------------ MODULE Requests ------------------------------
(***************************************************************************)
(* The way of a connection request: NetworkServiceImpl.java turns a URL    *)
(* into a native call, the JNI function into a ConnectionString, the       *)
(* service into a message, NetworkManager into a socket with a handler,    *)
(* and the handler's first passes into an address and a connect().  What   *)
(* each conversion does to protocol, family, host and port is kept.        *)
(***************************************************************************)
EXTENDS Integers, Sequences

CONSTANTS Urls,         \* what callers ask for: [protocol, host, port, path]
          V4, V6,       \* hosts that inet_pton accepts for the one family
                        \* or the other; other hosts are names
          Ids,          \* values of String.hashCode
          MaxRequests,  \* bound: number of requests
          MaxCalls      \* bound: calls of connect() for one request

NoPort == -1            \* URL.getPort() of a URL without a port
Ports == 0..65535       \* std::uint16_t
IsPort(p) == p = NoPort \/ p \in Ports

ASSUME UrlAssumption ==
  /\ V4 \cap V6 = {}
  /\ \A u \in Urls : u.protocol \in {"tcp", "udp", "http"} /\ IsPort(u.port)
ASSUME BoundAssumption == MaxRequests \in Nat /\ MaxCalls \in Nat

VARIABLES hash,      \* String.hashCode: some function, the same for ever
          asked,     \* history: the URLs of the requests that were accepted
          messages,  \* ConnectionRequestMessages on their way
          conns,     \* connection ids to connections
          calls,     \* history: the results of connect(), by request
          running    \* the process has not been terminated

requestVars == <<hash, asked, messages, conns, calls, running>>

NoConnection == [id |-> "none"]

-----------------------------------------------------------------------------
(* The conversions.                                                        *)

(* Java: the protocol, case folded; an unknown one is a                    *)
(* MalformedURLException.  isIPv4 is the literal true.                     *)
KnownProtocols == {"tcp", "udp"}
IsTCP(u) == u.protocol = "tcp"
IsIPv4 == TRUE

(* JNI: static_cast<std::uint16_t>(port).                                  *)
Narrow(port) == port % 65536

(* JNI: the initialiser list of ConnectionString{isIpv6, isTcp, port, ip}  *)
(* is given {isTCP, isIPv4, port, host}.                                   *)
ConnectionString(u) == [ isIpv6 |-> IsTCP(u), isTcp |-> IsIPv4,
                         port |-> Narrow(u.port), ip |-> u.host ]

(* The constructor of the message; req is a ghost: which request it is.    *)
Message(r, u) ==
  LET c == ConnectionString(u)
  IN  [ req |-> r, id |-> hash[u], ip |-> c.ip, port |-> c.port,
        domain |-> IF c.isIpv6 THEN "INET6" ELSE "INET",
        type |-> IF c.isTcp THEN "TCP" ELSE "UDP" ]

(* SocketAddress(host, port): a name leaves the family 0, which has        *)
(* RawLength 0.  The port is stored as it comes; the network reads it in   *)
(* network byte order, and the devices are little-endian.                  *)
Swapped(port) == 256 * (port % 256) + port \div 256
SocketAddress(host, port) ==
  [ family |-> IF host \in V4 THEN "INET" ELSE IF host \in V6 THEN "INET6" ELSE "UNSPEC",
    host |-> host, wirePort |-> Swapped(port) ]

(* connect(), the kernel's part: a short address is invalid, and so is one *)
(* that is shorter than the socket's family asks for.                      *)
ConnectResults(domain, addr) ==
  CASE addr.family = "UNSPEC" -> {"EINVAL"}
    [] domain = "INET6" /\ addr.family = "INET" -> {"EINVAL"}
    [] domain = "INET" /\ addr.family = "INET6" -> {"EAFNOSUPPORT"}
    [] OTHER -> {"OK", "ECONNREFUSED", "ETIMEDOUT", "EACCES", "EPERM"}

(* Socket::OnError: what becomes of an errno.  EPERM stands for those that *)
(* the switch does not list: it returns.                                   *)
IOErrors == {"ECONNREFUSED", "EAFNOSUPPORT"}
OtherErrors == {"EINVAL", "ETIMEDOUT", "EACCES"}
ResultsFor(c) == ConnectResults(c.domain, SocketAddress(c.address, c.port))
ConnectReturns(result) == result \notin IOErrors \cup OtherErrors

-----------------------------------------------------------------------------
RequestsInit == /\ hash \in [Urls -> Ids]
                /\ asked = <<>>
                /\ messages = <<>>
                /\ conns = [i \in Ids |-> NoConnection]
                /\ calls = <<>>
                /\ running = TRUE

(* Mutant: the message is put before the others.                           *)
RequestAtFront(u) ==
  /\ running
  /\ Len(asked) < MaxRequests
  /\ u.protocol \in KnownProtocols
  /\ asked' = Append(asked, u)
  /\ calls' = Append(calls, <<>>)
  /\ messages' = <<Message(Len(asked) + 1, u)>> \o messages
  /\ UNCHANGED <<hash, conns, running>>

(* request(url, listener) on the UI thread, down to the queue.  With a     *)
(* timeout it is the same: -1 is passed in any case.                       *)
Request(u) ==
  /\ running
  /\ Len(asked) < MaxRequests
  /\ u.protocol \in KnownProtocols
  /\ asked' = Append(asked, u)
  /\ calls' = Append(calls, <<>>)
  /\ messages' = Append(messages, Message(Len(asked) + 1, u))
  /\ UNCHANGED <<hash, conns, running>>

(* MalformedURLException; or NewGlobalRef fails, and the error code is     *)
(* ignored by the caller.                                                  *)
RequestRejected(u) ==
  /\ running
  /\ UNCHANGED requestVars

(* No queue: Post's std::logic_error leaves the JNI function.              *)
RequestDies(u) ==
  /\ running
  /\ u.protocol \in KnownProtocols
  /\ running' = FALSE
  /\ UNCHANGED <<hash, asked, messages, conns, calls>>

Connection(m) == [ id |-> m.id, req |-> m.req, domain |-> m.domain,
                   address |-> m.ip, port |-> m.port, connected |-> FALSE ]

(* NetworkManager::Process, On and Create: a socket of the message's       *)
(* family, and Add, which replaces the connection that has the id.         *)
Process ==
  /\ running /\ messages # <<>>
  /\ LET m == Head(messages)
     IN  /\ m.type = "TCP"
         /\ conns' = [conns EXCEPT ![m.id] = Connection(m)]
  /\ messages' = Tail(messages)
  /\ UNCHANGED <<hash, asked, calls, running>>

(* No socket, or a UDP message: On catches the exception, and              *)
(* NotifyException does nothing.                                           *)
ProcessFails ==
  /\ running /\ messages # <<>>
  /\ messages' = Tail(messages)
  /\ UNCHANGED <<hash, asked, conns, calls, running>>

(* EINVAL of socket() is std::invalid_argument, which On does not catch.   *)
ProcessDies ==
  /\ running /\ messages # <<>>
  /\ running' = FALSE
  /\ UNCHANGED <<hash, asked, messages, conns, calls>>

(* Mutant: _isConnected is not set.                                        *)
ConnectForgets(i) ==
  /\ running /\ conns[i] # NoConnection /\ ~conns[i].connected
  /\ Len(calls[conns[i].req]) < MaxCalls
  /\ \E r \in ResultsFor(conns[i]) \ OtherErrors :
        /\ calls' = [calls EXCEPT ![conns[i].req] = Append(@, r)]
        /\ \E c \in {conns[i], NoConnection} : conns' = [conns EXCEPT ![i] = c]
  /\ running' \in BOOLEAN
  /\ UNCHANGED <<hash, asked, messages>>

(* A writable handler that is not connected connects; an IOException is    *)
(* swallowed, and the next pass tries again.  What follows in the same     *)
(* call takes a task from an empty list: undefined, it may do nothing,     *)
(* fail and remove the connection, or crash.                               *)
Connect(i) ==
  /\ running /\ conns[i] # NoConnection /\ ~conns[i].connected
  /\ Len(calls[conns[i].req]) < MaxCalls
  /\ \E r \in ResultsFor(conns[i]) \ OtherErrors :
        /\ calls' = [calls EXCEPT ![conns[i].req] = Append(@, r)]
        /\ \E c \in {[conns[i] EXCEPT !.connected = ConnectReturns(r)], NoConnection} :
              conns' = [conns EXCEPT ![i] = c]
  /\ running' \in BOOLEAN
  /\ UNCHANGED <<hash, asked, messages>>

(* The exceptions that are not IOExceptions meet Handle's NOEXCEPT.        *)
ConnectDies(i) ==
  /\ running /\ conns[i] # NoConnection /\ ~conns[i].connected
  /\ Len(calls[conns[i].req]) < MaxCalls
  /\ \E r \in ResultsFor(conns[i]) \cap OtherErrors :
        calls' = [calls EXCEPT ![conns[i].req] = Append(@, r)]
  /\ running' = FALSE
  /\ UNCHANGED <<hash, asked, messages, conns>>

(* A connected handler goes to the empty list at once.                     *)
Serve(i) ==
  /\ running /\ conns[i] # NoConnection /\ conns[i].connected
  /\ conns' \in {conns, [conns EXCEPT ![i] = NoConnection]}
  /\ running' \in BOOLEAN
  /\ UNCHANGED <<hash, asked, messages, calls>>

RequestsNext == \/ \E u \in Urls : Request(u) \/ RequestRejected(u) \/ RequestDies(u)
                \/ Process \/ ProcessFails \/ ProcessDies
                \/ \E i \in Ids : Connect(i) \/ ConnectDies(i) \/ Serve(i)

RequestsSpec == RequestsInit /\ [][RequestsNext]_requestVars
-----------------------------------------------------------------------------
Results == {"OK", "EPERM"} \cup IOErrors \cup OtherErrors

Connections == [ id : Ids, req : 1..MaxRequests, domain : {"INET", "INET6"},
                 address : { u.host : u \in Urls }, port : Ports,
                 connected : BOOLEAN ]

(* Types; ports fit in 16 bits, and no UDP message becomes a connection.   *)
RequestsTypeOK == /\ hash \in [Urls -> Ids]
                  /\ asked \in Seq(Urls)
                  /\ \A k \in DOMAIN messages : /\ messages[k].type \in {"TCP", "UDP"}
                                                /\ messages[k].port \in Ports
                  /\ conns \in [Ids -> Connections \cup {NoConnection}]
                  /\ calls \in Seq(Seq(Results)) /\ Len(calls) = Len(asked)
                  /\ running \in BOOLEAN

Asked(c) == asked[c.req]

(* connect() is not called again for a request once it has returned, in    *)
(* whatever passes and replacements follow (TCPSocketEventHandler:43-53):  *)
(* a second call would fail with EISCONN and hide a lost connection.       *)
ConnectsOnce ==
  /\ RequestsTypeOK
  /\ \A r \in DOMAIN calls :
       \A k \in 1..(Len(calls[r]) - 1) : ~ConnectReturns(calls[r][k])

(* Requests are served in the order they were made: a connection never     *)
(* gives way to that of an older request (NetworkContext.cpp:65-91).       *)
NewestWins ==
  [][ \A i \in Ids : conns[i] # NoConnection /\ conns'[i] # NoConnection =>
                    conns'[i].req >= conns[i].req ]_requestVars

Established == { i \in Ids : /\ conns[i] # NoConnection /\ conns[i].connected
                             /\ calls[conns[i].req][Len(calls[conns[i].req])] = "OK" }

(* "for TCP connection, tcp://host:port/your_customized_id"                *)
(* (NetworkService.java:49): what is connected by TCP was asked to be, and *)
(* goes to the port that was asked for.                                    *)
ConnectsAsAsked ==
  \A i \in Established :
     /\ Asked(conns[i]).protocol = "tcp"
     /\ SocketAddress(conns[i].address, conns[i].port).wirePort = Asked(conns[i]).port
=============================================================================
