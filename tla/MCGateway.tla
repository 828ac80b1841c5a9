------------------------------ MODULE MCGateway ------------------------------
\* Model-checks Gateway: two clients, an admin's token and its life of three
\* ticks, a key, a store with room for two counters, windows of two ticks.
EXTENDS Gateway, TLC

CONSTANTS admin, key

MCTierMax == [free |-> 2, premium |-> 3, admin |-> 4, internal |-> 5]
MCExp == [t \in Tokens |-> 2]
MCKeyExpiry == [k \in ApiKeys |-> 2]
MCKeyScopes == [k \in ApiKeys |-> {"read", "write"}]
MCPatches == [close |-> [maintenanceMode |-> TRUE],
              lower |-> [rateLimitPerMinute |-> 1, unknownKey |-> 7],
              stop |-> [rateLimitPerMinute |-> 0]]
MCAdminCalls == DOMAIN MCPatches \cup {"reset"}

IpSymmetry == Permutations(Ips)

=============================================================================
