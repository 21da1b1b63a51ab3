------------------------------ MODULE PoolOptions ------------------------------
(***************************************************************************)
(* normalizeOptions (postgres.go): what Open makes of the options of a     *)
(* pool before it builds one.                                              *)
(*                                                                         *)
(* A connection URL is a record of what is decided about it: whether it    *)
(* names one host and port, a user with a password and a database, and the *)
(* values of its sslmode parameter in order.  Durations are in minutes.    *)
(***************************************************************************)
EXTENDS Integers, Sequences, TLAPS

defaultMaxOpenConnections == 20
defaultMaxIdleConnections == 10
defaultConnectionMaxLifetime == 30
defaultConnectionMaxIdleTime == 5
maxConfiguredConnectionCount == 100000

Modes == {"verify-full", "verify-ca", "require", "prefer", "allow", "disable", "other"}
URLs == [network : BOOLEAN, database : BOOLEAN, sslmode : Seq(Modes)]
Pools == [open : Int, idle : Int, lifetime : Int, idletime : Int]

Refused == "refused"

-------------------------------------------------------------------------------

Default(value, default) == IF value = 0 THEN default ELSE value

Defaulted(pool) ==
  [open |-> Default(pool.open, defaultMaxOpenConnections),
   idle |-> Default(pool.idle, defaultMaxIdleConnections),
   lifetime |-> Default(pool.lifetime, defaultConnectionMaxLifetime),
   idletime |-> Default(pool.idletime, defaultConnectionMaxIdleTime)]

validPool(pool) ==
  /\ pool.open \in 1..maxConfiguredConnectionCount
  /\ pool.idle \in 1..pool.open
  /\ pool.lifetime >= 0 /\ pool.idletime >= 0

normalizePool(pool) == IF validPool(Defaulted(pool)) THEN Defaulted(pool) ELSE Refused

TLSModes == {"verify-full", "verify-ca", "require"}
validSSLMode(mode, allowInsecure) == mode \in TLSModes \/ (mode = "disable" /\ allowInsecure)

\* validNetworkIdentity and validDatabaseIdentity, then the mode of TLS.
normalizeURL(url, allowInsecure) ==
  IF ~url.network \/ ~url.database THEN Refused
  ELSE IF url.sslmode = <<>> THEN [url EXCEPT !.sslmode = <<"verify-full">>]
  ELSE IF Len(url.sslmode) # 1 \/ ~validSSLMode(url.sslmode[1], allowInsecure) THEN Refused
  ELSE url

-------------------------------------------------------------------------------

\* A pool that Open builds is bounded: database/sql takes no number it was given
\* for "unlimited", and does not have to lower the number of idle connections.
THEOREM PoolIsBounded ==
  ASSUME NEW pool \in Pools, normalizePool(pool) # Refused
  PROVE  LET made == normalizePool(pool) IN
           /\ 1 <= made.idle /\ made.idle <= made.open
           /\ made.open <= maxConfiguredConnectionCount
           /\ made.lifetime > 0 /\ made.idletime > 0
<1> DEFINE made == Defaulted(pool)
<1>1. normalizePool(pool) = made /\ validPool(made)
  BY DEF normalizePool
<1>2. /\ made.open \in Int /\ made.idle \in Int
      /\ made.lifetime \in Int \ {0} /\ made.idletime \in Int \ {0}
  BY DEF Pools, Defaulted, Default, defaultMaxOpenConnections, defaultMaxIdleConnections,
     defaultConnectionMaxLifetime, defaultConnectionMaxIdleTime
<1>3. /\ 1 <= made.idle /\ made.idle <= made.open
      /\ made.open <= maxConfiguredConnectionCount
      /\ made.lifetime > 0 /\ made.idletime > 0
  <2>1. /\ made.open \in 1..maxConfiguredConnectionCount
        /\ made.idle \in 1..made.open
        /\ made.lifetime >= 0 /\ made.idletime >= 0
    BY <1>1 DEF validPool
  <2>2. maxConfiguredConnectionCount \in Int
    BY DEF maxConfiguredConnectionCount
  <2> HIDE DEF made
  <2> QED
    BY <1>2, <2>1, <2>2
<1> QED
  BY <1>1, <1>3

\* What was normalized once is accepted as it is: options that were read back
\* from a pool build the same pool.
THEOREM PoolIsStable ==
  ASSUME NEW pool \in Pools, normalizePool(pool) # Refused
  PROVE  normalizePool(normalizePool(pool)) = normalizePool(pool)
<1> DEFINE made == Defaulted(pool)
<1>1. normalizePool(pool) = made /\ validPool(made)
  BY DEF normalizePool
<1>2. made.open # 0 /\ made.idle # 0 /\ made.lifetime # 0 /\ made.idletime # 0
  BY DEF Pools, Defaulted, Default, defaultMaxOpenConnections, defaultMaxIdleConnections,
     defaultConnectionMaxLifetime, defaultConnectionMaxIdleTime
<1>3. Defaulted(made) = made
  BY <1>2 DEF Defaulted, Default
<1> QED
  BY <1>1, <1>3 DEF normalizePool

\* Unless it was allowed to be insecure, a pool connects with TLS, and the driver
\* finds one sslmode only: with none given, the host name is verified.
THEOREM ConnectsWithTLS ==
  ASSUME NEW url \in URLs, normalizeURL(url, FALSE) # Refused
  PROVE  LET made == normalizeURL(url, FALSE) IN
           /\ Len(made.sslmode) = 1 /\ made.sslmode[1] \in TLSModes
           /\ url.sslmode = <<>> => made.sslmode[1] = "verify-full"
<1>1. CASE url.sslmode = <<>>
  BY <1>1 DEF normalizeURL, URLs, TLSModes
<1>2. CASE url.sslmode # <<>>
  BY <1>2 DEF normalizeURL, URLs, validSSLMode
<1> QED
  BY <1>1, <1>2
================================================================================
