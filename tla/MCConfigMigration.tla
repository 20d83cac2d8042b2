-------------------------- MODULE MCConfigMigration --------------------------
EXTENDS ConfigMigration

\* network.port is packaged, network.advertiseAddress is not; system.version has
\* to be filled in, maxBFTWeightCap is packaged.
MCCarried  == {"port", "advertiseAddress"}
MCFilled   == {"version", "maxBFTWeightCap"}
MCPackaged == {"port", "maxBFTWeightCap"}
=============================================================================
