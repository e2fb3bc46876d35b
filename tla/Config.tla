------------------------------- MODULE Config -------------------------------
(***************************************************************************)
(* internal/config/validate.go: the settings Load refuses.  A setting is a *)
(* field of a record, and a duration an integer of any one unit.  Load     *)
(* parses the environment, then makes these checks; errors.Join accepts    *)
(* when every one of them does.                                            *)
(***************************************************************************)
EXTENDS Integers

(* envDefault, with the shortest signing key that is accepted.  A duration *)
(* is a multiple of the given millisecond.                                 *)
Default(millisecond) ==
    LET second == 1000 * millisecond
        minute == 60 * second
        hour == 60 * minute
    IN  [httpHost |-> "", httpPort |-> 8080, internalPort |-> 8081,
         readTimeout |-> 5 * second, writeTimeout |-> 10 * second,
         idleTimeout |-> 120 * second, requestTimeout |-> 2 * second,
         maxBodyBytes |-> 1048576, compressMinBytes |-> 1024, hstsMaxAge |-> 31536000,
         grpcHost |-> "", grpcPort |-> 9090, grpcRequestTimeout |-> 2 * second,
         grpcMaxRequestBytes |-> 1048576,
         maxOpenConns |-> 25, maxIdleConns |-> 5, connMaxLifetime |-> 30 * minute,
         ttl |-> 5 * minute, negTTL |-> minute,
         batchSize |-> 25, pollInterval |-> 5 * second, publishTimeout |-> 2 * second,
         maxAttempts |-> 10, loadTimeout |-> second,
         idempotencyTTL |-> 24 * hour, purgeInterval |-> hour,
         shutdownTimeout |-> 10 * second, jwtSecretBytes |-> 32]

-----------------------------------------------------------------------------
Positive(v) == v > 0
NotNegative(v) == v >= 0

AtLeast(v, floor) == v >= floor

MaxPort == 65535
ListenPort(v) == v \in 1 .. MaxPort

(* validateResponseDeadline. *)
ResponseDeadlineOk(writeTimeout, requestTimeout) == writeTimeout > requestTimeout

ValidHTTP(c) ==
    /\ ListenPort(c.httpPort) /\ ListenPort(c.internalPort)
    /\ Positive(c.readTimeout) /\ Positive(c.writeTimeout)
    /\ Positive(c.idleTimeout) /\ Positive(c.requestTimeout)
    /\ Positive(c.maxBodyBytes)
    /\ NotNegative(c.compressMinBytes) /\ NotNegative(c.hstsMaxAge)
    /\ ResponseDeadlineOk(c.writeTimeout, c.requestTimeout)

ValidGRPC(c) ==
    /\ ListenPort(c.grpcPort)
    /\ Positive(c.grpcRequestTimeout) /\ Positive(c.grpcMaxRequestBytes)

(* The last conjunct is validateConnLimits. *)
ValidPostgres(c) ==
    /\ Positive(c.maxOpenConns) /\ NotNegative(c.maxIdleConns)
    /\ Positive(c.connMaxLifetime)
    /\ c.maxIdleConns <= c.maxOpenConns

ValidValkey(c, millisecond) ==
    AtLeast(c.ttl, millisecond) /\ AtLeast(c.negTTL, millisecond)

ValidOutbox(c) ==
    /\ Positive(c.batchSize) /\ Positive(c.pollInterval)
    /\ Positive(c.publishTimeout) /\ Positive(c.maxAttempts)

(* Service, Idempotency and ShutdownTimeout. *)
ValidTimeouts(c) ==
    /\ Positive(c.loadTimeout)
    /\ Positive(c.idempotencyTTL) /\ Positive(c.purgeInterval)
    /\ Positive(c.shutdownTimeout)

MinJWTSecretBytes == 32
ValidAuth(c) == c.jwtSecretBytes >= MinJWTSecretBytes

(* Address: what the three servers pass to Listen. *)
HTTPAddress(c) == [host |-> c.httpHost, port |-> c.httpPort]
InternalAddress(c) == [host |-> c.httpHost, port |-> c.internalPort]
GRPCAddress(c) == [host |-> c.grpcHost, port |-> c.grpcPort]

(* validateListenAddresses compares the addresses as text. *)
ValidListenAddresses(c) ==
    /\ HTTPAddress(c) # InternalAddress(c)
    /\ GRPCAddress(c) \notin {HTTPAddress(c), InternalAddress(c)}

Validate(c, millisecond) ==
    /\ ValidHTTP(c) /\ ValidGRPC(c) /\ ValidPostgres(c)
    /\ ValidValkey(c, millisecond) /\ ValidOutbox(c) /\ ValidTimeouts(c)
    /\ ValidAuth(c) /\ ValidListenAddresses(c)

=============================================================================
