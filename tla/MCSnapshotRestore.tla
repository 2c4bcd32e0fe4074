-------------------------- MODULE MCSnapshotRestore --------------------------
(* Small instances of SnapshotRestore for TLC. *)
EXTENDS SnapshotRestore
CONSTANTS k1, k2, v1, v2

Skipped(op) == <<[op |-> op]>>
Sel(d) == <<[op |-> "select", db |-> d]>>
Exp(t) == <<[op |-> "expire", at |-> t]>>
K(type, k, lzf, v) == <<[op |-> "key", type |-> type, key |-> k, lzf |-> lzf, val |-> v]>>

\* Two databases, one key of the same name in both, an expiry before a key without one.
TwoDbs == Skipped("header") \o Sel(0) \o Skipped("resizedb")
          \o Exp(5) \o Skipped("idle") \o K("plain", k1, FALSE, v1) \o K("plain", k2, FALSE, v2)
          \o Sel(1) \o K("plain", k1, FALSE, v2) \o Skipped("eof")

\* Only the second database, and a key that expires soon.
SecondDb == Skipped("header") \o Skipped("aux") \o Sel(1) \o Exp(2) \o K("plain", k1, FALSE, v1)
            \o K("plain", k2, FALSE, v1) \o Skipped("eof")

\* Two keys with names long enough to be compressed.
Packed == Skipped("header") \o Sel(0) \o K("plain", k1, TRUE, v1)
          \o K("plain", k2, TRUE, v2) \o Skipped("eof")

\* A key after a record the parser does not read as it is laid out.
After(r) == r \o K("plain", k1, FALSE, v1) \o Skipped("eof")
Streamed == After(K("stream", k2, FALSE, v1))
Listed == After(K("list2", k2, FALSE, v1))
Moduled == After(K("module", k2, FALSE, v1))
Unknown == After(Skipped("unknown"))

\* A database the target does not have.
Elsewhere == Sel(2) \o K("plain", k1, FALSE, v1) \o Skipped("eof")

Unmet == {TwoDbs, SecondDb, Packed, Streamed, Listed, Elsewhere}
AllFiles == Unmet \union {Moduled, Unknown}
MCLeftovers == {{}, {[db |-> 0, key |-> k1, val |-> Old, exp |-> NoExpire]}}
MCTime == {2, 3, 5}
=============================================================================
