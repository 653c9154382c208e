CONSTANTS
    Filters = {f1, f2}
    Txs = {t1}
    FILTER_RETAIN_THRESHOLD = 2
    TRANSACTION_RETAIN_THRESHOLD = 1
    MAX_STORED_FILTERS = 1
    MAX_LAG = 2
SPECIFICATION PoolsSpec
INVARIANTS PoolsTypeOK
PROPERTIES FiltersStayTheirTime PendingStayTheirTime FiltersExpire PendingExpire
