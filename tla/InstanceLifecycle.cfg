SPECIFICATION LifeSpec
CONSTANT MaxLines = 3
INVARIANTS TypeOK ErrorHasStderr NoVfkitLeftBehind LifeTypeOK NoStrayVfkit StoreIsFresh
PROPERTIES DetachedChildIsReaped ImplementsContract StoreOutlivesVfkit DeleteCompletes RecordKeepsContract
CHECK_DEADLOCK FALSE
