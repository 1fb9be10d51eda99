--------------------------- MODULE MCSchemaCache ---------------------------
(* Model-checking instance of SchemaCache: one CRD-defined kind served in  *)
(* two versions, two goroutines resolving schemas.                         *)
EXTENDS SchemaCache

CONSTANTS gkA, v1, v2, emptyGK, crdGK, t1, t2

MCGKs == {gkA}
MCVersions == {v1, v2}
\* A CRD object decoded by a typed client has an empty TypeMeta; one built
\* with its TypeMeta set names apiextensions.k8s.io/CustomResourceDefinition.
MCTypeMetaGKs == {emptyGK, crdGK}
MCThreads == {t1, t2}

=============================================================================
